---- MODULE Spec2Model ----
(***************************************************************************)
(* Claude Daily Digest: the seen-content ledger (ContentDatabase), the     *)
(* scoring and ranking engine, the summary enrichment of one item, the     *)
(* image and summary passes, the nine source adapters, the docs cache and  *)
(* the driver main() of scripts/collect_data.py.                           *)
(*                                                                         *)
(* Items and ledger entries are Python dicts: records whose set of keys    *)
(* varies, read with Get (dict.get) and written with Put (d[k] = v).       *)
(* Text is modelled by TLA+ strings with Len, \o and SubSeq.               *)
(***************************************************************************)
EXTENDS Integers, Sequences, FiniteSets, TLC

VARIABLES now, db, op, items, min_score, scored_items, rank_pc,
          enrich_item, response, enrich_pc,
          pc, run, all_content, new_content, quality_content, digest,
          img_tasks, sum_tasks, collected_before, fault, exit_code,
          img_items, img_before, img_fetch_og, img_pc, tasks,
          adapter, answers, returned, adapter_pc, docs_cache

ledgerVars == <<now, db, op>>
rankVars == <<items, min_score, scored_items, rank_pc>>
enrichVars == <<enrich_item, response, enrich_pc>>
mainVars == <<pc, run, all_content, new_content, quality_content, digest,
              img_tasks, sum_tasks, collected_before, fault, exit_code>>
imageVars == <<img_items, img_before, img_fetch_og, img_pc, tasks>>
adapterVars == <<adapter, answers, returned, adapter_pc, docs_cache>>
laterVars == <<imageVars, adapterVars>>
vars == <<now, db, op, items, min_score, scored_items, rank_pc,
          enrich_item, response, enrich_pc,
          pc, run, all_content, new_content, quality_content, digest,
          img_tasks, sum_tasks, collected_before, fault, exit_code,
          img_items, img_before, img_fetch_og, img_pc, tasks,
          adapter, answers, returned, adapter_pc, docs_cache>>

(***************************************************************************)
(* Bounds                                                                  *)
(***************************************************************************)
TicksPerDay == 2
MaxNow == 4
MaxDb == 3
MaxRetention == 1
MaxRankLen == 3
MaxRuns == 3

(***************************************************************************)
(* dict helpers                                                            *)
(***************************************************************************)
Get(d, k, default) == IF k \in DOMAIN d THEN d[k] ELSE default

Put(d, k, v) == [f \in DOMAIN d \cup {k} |-> IF f = k THEN v ELSE d[f]]

Range(s) == {s[i] : i \in DOMAIN s}

(***************************************************************************)
(* Time: datetime.now() is the clock `now`, counted in ticks.  isoformat   *)
(* writes a datetime as (date, time of day) and fromisoformat reads it     *)
(* back.                                                                   *)
(***************************************************************************)
isoformat(t) == [date |-> t \div TicksPerDay, time |-> t % TicksPerDay]

fromisoformat(s) == s.date * TicksPerDay + s.time

timedelta(days) == days * TicksPerDay

(***************************************************************************)
(* ContentDatabase                                                         *)
(***************************************************************************)
md5(text) == <<"md5", text>>

get_fingerprint(url, title) == md5(url \o title)

is_duplicate(d, url, title) ==
    LET fingerprint == get_fingerprint(url, title)
    IN  Len(SelectSeq(d, LAMBDA doc : doc.fingerprint = fingerprint)) > 0

LedgerEntry_WithSource(item, t) ==
    [fingerprint |-> md5(item.url \o item.title \o Get(item, "source", "")),
     url |-> item.url,
     title |-> item.title,
     timestamp |-> isoformat(t),
     category |-> Get(item, "category", "unknown")]

LedgerEntry(item, t) ==
    [fingerprint |-> get_fingerprint(item.url, item.title),
     url |-> item.url,
     title |-> item.title,
     timestamp |-> isoformat(t),
     category |-> Get(item, "category", "unknown")]

add_content_Nothing(d, item, t) == d

add_content(d, item, t) == Append(d, LedgerEntry(item, t))

is_old_Inclusive(doc, cutoff) == fromisoformat(doc.timestamp) <= cutoff

is_old(doc, cutoff) == fromisoformat(doc.timestamp) < cutoff

cleanup_old_entries(d, days, t) ==
    LET cutoff == t - timedelta(days)
    IN  SelectSeq(d, LAMBDA doc : ~is_old(doc, cutoff))

(***************************************************************************)
(* Text helpers: str.lower and the substring test `keyword in text`.       *)
(***************************************************************************)
UpperCase == "ABCDEFGHIJKLMNOPQRSTUVWXYZ"

LowerCase == "abcdefghijklmnopqrstuvwxyz"

LowerChar(c) ==
    IF \E i \in 1..Len(UpperCase) : SubSeq(UpperCase, i, i) = c
    THEN LET i == CHOOSE j \in 1..Len(UpperCase) : SubSeq(UpperCase, j, j) = c
         IN  SubSeq(LowerCase, i, i)
    ELSE c

RECURSIVE lower(_)
lower(text) ==
    IF Len(text) = 0 THEN ""
    ELSE IF Len(text) = 1 THEN LowerChar(text)
    ELSE LET half == Len(text) \div 2
         IN  lower(SubSeq(text, 1, half)) \o lower(SubSeq(text, half + 1, Len(text)))

Contains(text, keyword) ==
    \E i \in 1..(Len(text) - Len(keyword) + 1) :
        SubSeq(text, i, i + Len(keyword) - 1) = keyword

(***************************************************************************)
(* calculate_quality_score                                                 *)
(***************************************************************************)
practical_keywords ==
    << "tutorial", "guide", "how to", "step by step",
       "tips", "tricks", "best practices", "workflow",
       "use case", "example", "template", "prompt" >>

claude_code_keywords ==
    << "claude code", "claude-code", "mcp", "model context protocol",
       "terminal", "cli", "vscode", "agentic", "agent",
       "coding assistant", "code generation" >>

official_keywords ==
    << "claude", "anthropic", "api", "update", "release",
       "announcement", "feature", "new", "sonnet", "opus", "haiku" >>

medium_keywords ==
    << "integration", "review", "comparison", "analysis",
       "project", "built with", "created" >>

OfficialSources == {"Anthropic News", "Anthropic Docs", "GitHub Releases"}

RECURSIVE KeywordScore(_, _, _, _, _)
KeywordScore(keywords, title, content, in_title, in_content) ==
    IF keywords = <<>> THEN 0
    ELSE (IF Contains(title, Head(keywords)) THEN in_title ELSE 0)
         + (IF Contains(content, Head(keywords)) THEN in_content ELSE 0)
         + KeywordScore(Tail(keywords), title, content, in_title, in_content)

SourceBonus(item) ==
    IF Get(item, "source", "") \in OfficialSources THEN 30 ELSE 0

FirstTruthy(a, b, c) == IF a # 0 THEN a ELSE IF b # 0 THEN b ELSE c

EngagementBonus(item) ==
    LET engagement == Get(item, "engagement", <<>>)
        points == FirstTruthy(Get(engagement, "points", 0),
                              Get(engagement, "score", 0),
                              Get(engagement, "reactions", 0))
        comments == Get(engagement, "comments", 0)
    IN  IF DOMAIN engagement = {} THEN 0
        ELSE (IF points > 100 THEN 25
              ELSE IF points > 50 THEN 15
              ELSE IF points > 20 THEN 10
              ELSE 0)
             + (IF comments > 50 THEN 15
                ELSE IF comments > 20 THEN 10
                ELSE 0)

StarsBonus(item) ==
    IF "stars" \in DOMAIN item
    THEN IF item.stars > 500 THEN 25
         ELSE IF item.stars > 100 THEN 20
         ELSE IF item.stars > 50 THEN 10
         ELSE 0
    ELSE 0

LengthBonus_AtLeast(content) ==
    IF Len(content) >= 500 THEN 10
    ELSE IF Len(content) >= 200 THEN 5
    ELSE 0

LengthBonus(content) ==
    IF Len(content) > 500 THEN 10
    ELSE IF Len(content) > 200 THEN 5
    ELSE 0

calculate_quality_score(item) ==
    LET title == lower(Get(item, "title", ""))
        content == lower(Get(item, "summary", "") \o Get(item, "description", ""))
    IN  KeywordScore(practical_keywords, title, content, 20, 8)
        + KeywordScore(claude_code_keywords, title, content, 18, 7)
        + KeywordScore(official_keywords, title, content, 15, 5)
        + KeywordScore(medium_keywords, title, content, 10, 3)
        + SourceBonus(item)
        + EngagementBonus(item)
        + StarsBonus(item)
        + LengthBonus(content)

(***************************************************************************)
(* filter_and_rank_content.  list.sort(key, reverse=True) is stable: it    *)
(* keeps equal keys in their original order.                               *)
(***************************************************************************)
RECURSIVE InsertDesc(_, _)
InsertDesc(sorted, item) ==
    IF sorted = <<>> THEN <<item>>
    ELSE IF Head(sorted).quality_score >= item.quality_score
         THEN <<Head(sorted)>> \o InsertDesc(Tail(sorted), item)
         ELSE <<item>> \o sorted

RECURSIVE InsertAsc(_, _)
InsertAsc(sorted, item) ==
    IF sorted = <<>> THEN <<item>>
    ELSE IF Head(sorted).quality_score <= item.quality_score
         THEN <<Head(sorted)>> \o InsertAsc(Tail(sorted), item)
         ELSE <<item>> \o sorted

RECURSIVE SortAsc(_)
SortAsc(list) ==
    IF list = <<>> THEN <<>>
    ELSE InsertAsc(SortAsc(SubSeq(list, 1, Len(list) - 1)), list[Len(list)])

SortByScoreDesc_Reversed(list) ==
    LET asc == SortAsc(list)
    IN  [i \in DOMAIN asc |-> asc[Len(asc) + 1 - i]]

RECURSIVE SortByScoreDesc(_)
SortByScoreDesc(list) ==
    IF list = <<>> THEN <<>>
    ELSE InsertDesc(SortByScoreDesc(SubSeq(list, 1, Len(list) - 1)),
                    list[Len(list)])

PassesMinScore_Strict(score, min) == score > min

PassesMinScore(score, min) == score >= min

\* The call returns the ranked list (ret) and, because item['quality_score']
\* is assigned on the caller's dicts, leaves the argument list changed (arg).
filter_and_rank_content(list, min) ==
    LET marked == [i \in DOMAIN list |->
                      LET score == calculate_quality_score(list[i])
                      IN  IF PassesMinScore(score, min)
                          THEN [keep |-> TRUE,
                                item |-> Put(list[i], "quality_score", score)]
                          ELSE [keep |-> FALSE, item |-> list[i]]]
        kept == SelectSeq(marked, LAMBDA m : m.keep)
    IN  [ret |-> SortByScoreDesc([i \in DOMAIN kept |-> kept[i].item]),
         arg |-> [i \in DOMAIN list |-> marked[i].item]]

(***************************************************************************)
(* More text helpers: str.strip, str.split('\n'), ' '.join,                *)
(* str.startswith, str.rfind and the slices text[a:b].                     *)
(***************************************************************************)
Whitespace == {" ", "\n", "\t"}

CharAt(text, i) == SubSeq(text, i, i)

Min(a, b) == IF a <= b THEN a ELSE b

Max(a, b) == IF a >= b THEN a ELSE b

\* text[a:b] with 0 <= a
Slice(text, a, b) == SubSeq(text, a + 1, Min(b, Len(text)))

strip(text) ==
    IF \A i \in 1..Len(text) : CharAt(text, i) \in Whitespace THEN ""
    ELSE LET first == CHOOSE i \in 1..Len(text) :
                          /\ CharAt(text, i) \notin Whitespace
                          /\ \A j \in 1..(i - 1) : CharAt(text, j) \in Whitespace
             last == CHOOSE i \in 1..Len(text) :
                         /\ CharAt(text, i) \notin Whitespace
                         /\ \A j \in (i + 1)..Len(text) :
                                CharAt(text, j) \in Whitespace
         IN  SubSeq(text, first, last)

RECURSIVE split_lines(_)
split_lines(text) ==
    IF \A i \in 1..Len(text) : CharAt(text, i) # "\n" THEN <<text>>
    ELSE LET p == CHOOSE i \in 1..Len(text) :
                      /\ CharAt(text, i) = "\n"
                      /\ \A j \in 1..(i - 1) : CharAt(text, j) # "\n"
         IN  <<SubSeq(text, 1, p - 1)>>
                 \o split_lines(SubSeq(text, p + 1, Len(text)))

RECURSIVE join(_, _)
join(sep, parts) ==
    IF parts = <<>> THEN ""
    ELSE IF Len(parts) = 1 THEN parts[1]
    ELSE parts[1] \o sep \o join(sep, Tail(parts))

startswith(text, prefix) ==
    Len(text) >= Len(prefix) /\ SubSeq(text, 1, Len(prefix)) = prefix

\* 0-based index of the last occurrence, -1 when there is none
rfind(text, sub) ==
    LET found == {i \in 1..(Len(text) - Len(sub) + 1) :
                     SubSeq(text, i, i + Len(sub) - 1) = sub}
    IN  IF found = {} THEN -1
        ELSE (CHOOSE i \in found : \A j \in found : j <= i) - 1

(***************************************************************************)
(* SummaryGenerator                                                        *)
(***************************************************************************)
FETCH_TIMEOUT == 10
MAX_CONTENT_LENGTH == 8000
TARGET_SUMMARY_LENGTH == 500

None == <<>>

Some(text) == <<text>>

\* The source file spells the Chinese full stop as a three-character
\* sequence outside ASCII; "{|}" stands for these three characters.
FullStopMarker == "{|}"

NoisePrefixes == {"Share", "Tweet", "Follow", "Subscribe", "Sign up"}

\* re.match(r'https?://github\.com/([^/]+)/([^/]+)', url)
GithubRepoMatch(url) ==
    \E prefix \in {"https://github.com/", "http://github.com/"} :
        /\ startswith(url, prefix)
        /\ \E p \in (Len(prefix) + 2)..(Len(url) - 1) :
              /\ CharAt(url, p) = "/"
              /\ \A j \in (Len(prefix) + 1)..(p - 1) : CharAt(url, j) # "/"
              /\ CharAt(url, p + 1) # "/"

\* resp is what the network gives for the url: a timeout or connection
\* error, or an HTTP status with the text of the page / README.
extract_github_readme(url, resp) ==
    IF ~GithubRepoMatch(url) THEN None
    ELSE IF resp.kind # "http" THEN None
    ELSE IF resp.status = 200 THEN Some(Slice(resp.text, 0, MAX_CONTENT_LENGTH))
    ELSE None

extract_content(url, resp) ==
    IF Contains(url, "github.com") THEN extract_github_readme(url, resp)
    ELSE IF resp.kind = "http" /\ resp.status = 200 /\ resp.text # ""
         THEN Some(Slice(resp.text, 0, MAX_CONTENT_LENGTH))
         ELSE None

CleanLines(lines) ==
    SelectSeq([i \in DOMAIN lines |-> strip(lines[i])],
              LAMBDA line : /\ ~(Len(line) < 20)
                            /\ ~\E prefix \in NoisePrefixes :
                                   startswith(line, prefix))

CutOffset(search_text, target_length, search_start) ==
    IF rfind(search_text, FullStopMarker) # -1
    THEN rfind(search_text, FullStopMarker)
    ELSE IF rfind(search_text, ". ") # -1 THEN rfind(search_text, ". ")
    ELSE IF rfind(search_text, "! ") # -1 THEN rfind(search_text, "! ")
    ELSE IF rfind(search_text, "? ") # -1 THEN rfind(search_text, "? ")
    ELSE target_length - search_start

create_summary(content, target_length) ==
    IF content = "" THEN ""
    ELSE LET cleaned == join(" ", CleanLines(split_lines(strip(content))))
             search_start == Max(0, target_length - 100)
             search_end == Min(Len(cleaned), target_length + 100)
             search_text == Slice(cleaned, search_start, search_end)
             cut_point == search_start
                            + CutOffset(search_text, target_length, search_start)
                            + 1
             summary == strip(Slice(cleaned, 0, cut_point))
         IN  IF Len(cleaned) <= target_length THEN cleaned
             ELSE IF Len(cleaned) > Len(summary) THEN summary \o "..."
             ELSE summary

ShouldReplace_Always(summary, existing) == summary # ""

ShouldReplace(summary, existing) ==
    summary # "" /\ Len(summary) > Len(existing)

enrich_item_with_summary(it, resp) ==
    LET existing == Get(it, "summary", "")
        url == Get(it, "url", "")
        content == extract_content(url, resp)
        summary == create_summary(content[1], TARGET_SUMMARY_LENGTH)
    IN  IF existing # "" /\ Len(existing) > 200 THEN it
        ELSE IF url = "" THEN it
        ELSE IF content = None \/ content = Some("") THEN it
        ELSE IF ShouldReplace(summary, existing)
             THEN Put(it, "summary", summary)
             ELSE it

(***************************************************************************)
(* image_fetcher                                                           *)
(***************************************************************************)
SITE_LOGOS ==
    << [domain |-> "github.com",
        logo |-> "https://github.githubassets.com/images/modules/logos_page/GitHub-Mark.png"],
       [domain |-> "news.ycombinator.com",
        logo |-> "https://news.ycombinator.com/y18.svg"],
       [domain |-> "reddit.com",
        logo |-> "https://www.redditstatic.com/desktop2x/img/favicon/android-icon-192x192.png"],
       [domain |-> "dev.to",
        logo |-> "https://dev-to-uploads.s3.amazonaws.com/uploads/logos/resized_logo_UQww2soKuUsjaOGNB38o.png"],
       [domain |-> "anthropic.com",
        logo |-> "https://www.anthropic.com/images/icons/apple-touch-icon.png"],
       [domain |-> "docs.anthropic.com",
        logo |-> "https://www.anthropic.com/images/icons/apple-touch-icon.png"],
       [domain |-> "medium.com",
        logo |-> "https://cdn-images-1.medium.com/fit/c/152/152/1*sHhtYhaCe2Uc3IU0IgKwIQ.png"] >>

\* 1-based index of the first occurrence of sub in text, 0 when there is none
find(text, sub) ==
    LET found == {i \in 1..(Len(text) - Len(sub) + 1) :
                     SubSeq(text, i, i + Len(sub) - 1) = sub}
    IN  IF found = {} THEN 0
        ELSE CHOOSE i \in found : \A j \in found : i <= j

RECURSIVE replace_all(_, _, _)
replace_all(text, old, new) ==
    LET p == find(text, old)
    IN  IF p = 0 THEN text
        ELSE SubSeq(text, 1, p - 1) \o new
                 \o replace_all(SubSeq(text, p + Len(old), Len(text)), old, new)

\* urlparse(url).netloc: what stands between "//" after the scheme and the
\* next "/", "?" or "#"
netloc(url) ==
    LET p == find(url, "://")
        rest == SubSeq(url, p + 3, Len(url))
        stops == {i \in 1..Len(rest) : CharAt(rest, i) \in {"/", "?", "#"}}
    IN  IF p = 0 THEN ""
        ELSE IF stops = {} THEN rest
        ELSE SubSeq(rest, 1, (CHOOSE i \in stops : \A j \in stops : i <= j) - 1)

get_domain(url) == replace_all(netloc(url), "www.", "")

\* page is what the network gives for the url; page.meta lists, in the order
\* of og_patterns, the image url captured by each pattern that matches.
fetch_og_image(page) ==
    IF page.kind = "http" /\ page.status = 200
    THEN LET good == SelectSeq(page.meta, LAMBDA image_url :
                         /\ ~Contains(lower(image_url), "pixel")
                         /\ ~Contains(image_url, "1x1"))
         IN  IF good = <<>> THEN None ELSE Some(good[1])
    ELSE None

get_fallback_image(url) ==
    LET domain == get_domain(url)
        known == SelectSeq(SITE_LOGOS, LAMBDA s : Contains(domain, s.domain))
    IN  IF domain = "" THEN None
        ELSE IF known # <<>> THEN Some(known[1].logo)
        ELSE Some("https://www.google.com/s2/favicons?domain=" \o domain
                      \o "&sz=128")

Truthy_Never(it, key) == FALSE

Truthy(it, key) == key \in DOMAIN it /\ it[key] # ""

get_image_for_item_FallbackFirst(it, fetch_og, page) ==
    LET url == Get(it, "url", "")
        og == IF fetch_og /\ url # "" THEN fetch_og_image(page) ELSE None
        fallback == get_fallback_image(url)
        image_url == IF fallback # None THEN fallback ELSE og
    IN  IF Truthy(it, "image_url") \/ Truthy(it, "owner_avatar") THEN it
        ELSE IF image_url # None THEN Put(it, "image_url", image_url[1])
        ELSE it

get_image_for_item(it, fetch_og, page) ==
    LET url == Get(it, "url", "")
        og == IF fetch_og /\ url # "" THEN fetch_og_image(page) ELSE None
        image_url == IF og # None THEN og ELSE get_fallback_image(url)
    IN  IF Truthy(it, "image_url") \/ Truthy(it, "owner_avatar") THEN it
        ELSE IF image_url # None THEN Put(it, "image_url", image_url[1])
        ELSE it

(***************************************************************************)
(* Source adapters.  An adapter issues its sub-queries in order; each      *)
(* sub-query raises (timeout, connection, rate limit, credentials,         *)
(* undecodable body) or answers with a status and, for 200, a payload of   *)
(* hits.  A null in the payload is None, a value v is Some(v).  An adapter *)
(* returns [raised, items, issued]: whether an exception leaves it, the    *)
(* list it returns, and the sub-queries it issued.                         *)
(***************************************************************************)
\* str(n) of an int
RECURSIVE str(_)
str(n) ==
    IF n < 0 THEN "-" \o str(-n)
    ELSE IF n < 10 THEN SubSeq("0123456789", n + 1, n + 1)
    ELSE str(n \div 10) \o str(n % 10)

\* str(v) of an int that may be None
StrOpt(v) == IF v = None THEN "None" ELSE str(v[1])

Raises == [kind |-> "raise"]

Answer(status, hits) == [kind |-> "http", status |-> status, hits |-> hits]

Unwrap(v) == IF v = None THEN None ELSE v[1]

AnyIn(keywords, text) == \E kw \in keywords : Contains(text, kw)

\* list.sort(key=..., reverse=True) on the keys of the elements: stable,
\* descending.
SortDescByKeys(list, keys) ==
    LET ranks == [i \in DOMAIN list |->
                     1 + Cardinality({j \in DOMAIN list :
                             \/ keys[j] > keys[i]
                             \/ (keys[j] = keys[i] /\ j < i)})]
    IN  [r \in DOMAIN list |-> list[CHOOSE i \in DOMAIN list : ranks[i] = r]]

Propagates == [raised |-> TRUE, items |-> <<>>]

Returns(list) == [raised |-> FALSE, items |-> list]

\* What a collection loop has so far: the items appended, the value the
\* sort key takes on each of them (None where evaluating it raises), the
\* ids seen, whether the current sub-query raised, the sub-queries issued.
NothingYet ==
    [items |-> <<>>, keys |-> <<>>, seen |-> {}, raised |-> FALSE,
     issued |-> <<>>]

Emit(st, item, key) ==
    [st EXCEPT !.items = Append(@, item), !.keys = Append(@, key)]

\* a + b * weight on values that may be None: TypeError when one is None
KeySum(a, b, weight) ==
    IF a = None \/ b = None THEN None ELSE Some(a[1] + b[1] * weight)

Unsortable(st) == \E i \in DOMAIN st.keys : st.keys[i] = None

SortedItems(st) ==
    SortDescByKeys(st.items, [i \in DOMAIN st.keys |-> st.keys[i][1]])

(***************************************************************************)
(* collect_devto_articles                                                  *)
(***************************************************************************)
DEVTO_CAP == 15
DEVTO_LOOKBACK_DAYS == 14

devto_search_params == << "claude", "anthropic", "ai", "llm" >>

devto_claude_keywords == {"claude", "anthropic", "sonnet", "opus", "haiku"}

devto_category_Unknown(content, tags) == "unknown"

devto_category(content, tags) ==
    IF \E kw \in {"tutorial", "guide", "how to", "tips", "best practice"} :
           Contains(content, kw) \/ kw \in Range(tags)
    THEN "tutorials_and_tips"
    ELSE IF AnyIn({"claude code", "terminal", "cli", "vscode", "coding"}, content)
    THEN "claude_code"
    ELSE IF AnyIn({"project", "built", "created", "workflow", "use case"}, content)
    THEN "use_cases"
    ELSE "blog_posts"

\* The body of the loop over the articles of one answer.
DevtoArticleStep(st, article, tag, t) ==
    LET article_id == article.id
        title == Get(article, "title", Some(""))
        description == Get(article, "description", Some(""))
        content == lower(title[1] \o " " \o description[1])
        published == Get(article, "published_at", [kind |-> "empty"])
        cutoff_date == t - timedelta(DEVTO_LOOKBACK_DAYS)
        tags == [k \in DOMAIN article.tag_list |-> lower(article.tag_list[k])]
        seen == [st EXCEPT !.seen = @ \cup {article_id}]
    IN  IF article_id \in st.seen THEN st
        ELSE IF title = None \/ description = None
        THEN [seen EXCEPT !.raised = TRUE]
        ELSE IF tag \notin {"claude", "anthropic"}
                /\ ~AnyIn(devto_claude_keywords, content)
        THEN seen
        ELSE IF published.kind = "iso" /\ published.at < cutoff_date
        THEN seen
        ELSE LET reactions == Get(article, "public_reactions_count", Some(0))
                 comments == Get(article, "comments_count", Some(0))
             IN  Emit(seen,
                      [title |-> title[1],
                       url |-> Get(article, "url", ""),
                       summary |-> Slice(description[1], 0, 300),
                       published |-> published,
                       source |-> "Dev.to",
                       category |-> devto_category(content, tags),
                       author |-> Get(Get(article, "user", <<>>), "name",
                                      "Unknown"),
                       engagement |-> [reactions |-> Unwrap(reactions),
                                       comments |-> Unwrap(comments)],
                       tags |-> article.tag_list],
                      KeySum(reactions, comments, 2))

RECURSIVE DevtoArticles(_, _, _, _, _)
DevtoArticles(st, hits, n, tag, t) ==
    IF n = 0 THEN st
    ELSE LET before == DevtoArticles(st, hits, n - 1, tag, t)
         IN  IF before.raised THEN before
             ELSE DevtoArticleStep(before, hits[n], tag, t)

\* The loop over search_params: each pass is inside its own try.
RECURSIVE DevtoQueries(_, _, _)
DevtoQueries(given, k, t) ==
    IF k = 0 THEN NothingYet
    ELSE LET before == DevtoQueries(given, k - 1, t)
             issued == [before EXCEPT !.issued = Append(@, k)]
             answer == given[k]
         IN  IF answer.kind = "raise" THEN issued
             ELSE IF answer.status = 200
             THEN [DevtoArticles(issued, answer.hits, Len(answer.hits),
                                 devto_search_params[k], t)
                       EXCEPT !.raised = FALSE]
             ELSE issued

collect_devto_articles(given, t) ==
    LET st == DevtoQueries(given, Len(devto_search_params), t)
    IN  IF Unsortable(st) THEN Propagates @@ [issued |-> st.issued]
        ELSE Returns(Slice(SortedItems(st), 0, DEVTO_CAP))
                 @@ [issued |-> st.issued]

(***************************************************************************)
(* collect_hackernews_discussions, collect_hn_claude_code_posts            *)
(***************************************************************************)
HN_CAP == 15
HN_CLAUDE_CODE_CAP == 10
HN_MIN_POINTS == 5
HN_MIN_COMMENTS == 3

hn_search_queries ==
    << "claude anthropic", "claude code", "anthropic ai", "claude api" >>

hn_claude_code_queries ==
    << "\"claude code\"", "claude terminal", "claude cli", "anthropic mcp" >>

hn_item_url(story_id) == "https://news.ycombinator.com/item?id=" \o story_id

\* points < 5 and num_comments < 3, on values that may be None: "raise"
\* where a comparison with None is evaluated.
BelowEngagement(points, comments, min_points, min_comments) ==
    IF points = None THEN "raise"
    ELSE IF points[1] >= min_points THEN "no"
    ELSE IF comments = None THEN "raise"
    ELSE IF comments[1] < min_comments THEN "yes"
    ELSE "no"

HnHitStep(st, hit) ==
    LET story_id == hit.objectID
        url == Get(hit, "url", "")
        points == Get(hit, "points", Some(0))
        num_comments == Get(hit, "num_comments", Some(0))
        hn_url == hn_item_url(story_id)
        seen == [st EXCEPT !.seen = @ \cup {story_id}]
        below == BelowEngagement(points, num_comments, HN_MIN_POINTS,
                                 HN_MIN_COMMENTS)
    IN  IF story_id \in st.seen THEN st
        ELSE IF below = "raise" THEN [seen EXCEPT !.raised = TRUE]
        ELSE IF below = "yes" THEN seen
        ELSE Emit(seen,
                  [title |-> Get(hit, "title", ""),
                   url |-> IF url # "" THEN url ELSE hn_url,
                   hn_url |-> hn_url,
                   summary |-> StrOpt(points) \o " points, "
                                   \o StrOpt(num_comments) \o " comments on HN",
                   published |-> Get(hit, "created_at", ""),
                   source |-> "Hacker News",
                   category |-> "community_discussions",
                   engagement |-> [points |-> Unwrap(points),
                                   comments |-> Unwrap(num_comments)]],
                  KeySum(points, num_comments, 1))

RECURSIVE HnHits(_, _, _)
HnHits(st, hits, n) ==
    IF n = 0 THEN st
    ELSE LET before == HnHits(st, hits, n - 1)
         IN  IF before.raised THEN before ELSE HnHitStep(before, hits[n])

RECURSIVE HnQueries(_, _)
HnQueries(given, k) ==
    IF k = 0 THEN NothingYet
    ELSE LET before == HnQueries(given, k - 1)
             issued == [before EXCEPT !.issued = Append(@, k)]
             answer == given[k]
         IN  IF answer.kind = "raise" THEN issued
             ELSE IF answer.status = 200
             THEN [HnHits(issued, answer.hits, Len(answer.hits))
                       EXCEPT !.raised = FALSE]
             ELSE issued

collect_hackernews_discussions(given) ==
    LET st == HnQueries(given, Len(hn_search_queries))
    IN  IF Unsortable(st) THEN Propagates @@ [issued |-> st.issued]
        ELSE Returns(Slice(SortedItems(st), 0, HN_CAP))
                 @@ [issued |-> st.issued]

HnClaudeCodeHitStep(st, hit) ==
    LET obj_id == hit.objectID
        is_story == Get(hit, "title", "") # ""
        title == IF is_story THEN hit.title
                 ELSE Get(hit, "story_title", "HN Discussion")
        story_id == IF is_story THEN obj_id ELSE Get(hit, "story_id", obj_id)
        points == Get(hit, "points", Some(0))
    IN  IF obj_id \in st.seen THEN st
        ELSE Emit([st EXCEPT !.seen = @ \cup {obj_id}],
                  [title |-> title,
                   url |-> hn_item_url(story_id),
                   summary |-> "Claude Code discussion on HN",
                   published |-> Get(hit, "created_at", ""),
                   source |-> "Hacker News",
                   category |-> "claude_code",
                   engagement |->
                       [points |-> IF points = None THEN 0 ELSE points[1]]],
                  None)

RECURSIVE HnClaudeCodeHits(_, _, _)
HnClaudeCodeHits(st, hits, n) ==
    IF n = 0 THEN st
    ELSE HnClaudeCodeHitStep(HnClaudeCodeHits(st, hits, n - 1), hits[n])

RECURSIVE HnClaudeCodeQueries(_, _)
HnClaudeCodeQueries(given, k) ==
    IF k = 0 THEN NothingYet
    ELSE LET before == HnClaudeCodeQueries(given, k - 1)
             issued == [before EXCEPT !.issued = Append(@, k)]
             answer == given[k]
         IN  IF answer.kind = "raise" THEN issued
             ELSE IF answer.status = 200
             THEN HnClaudeCodeHits(issued, answer.hits, Len(answer.hits))
             ELSE issued

\* The posts whose url no earlier post has.
UniqueByUrl(posts) ==
    LET first == {i \in DOMAIN posts :
                     \A j \in 1..(i - 1) : posts[j].url # posts[i].url}
        RECURSIVE Pick(_)
        Pick(n) == IF n = 0 THEN <<>>
                   ELSE IF n \in first THEN Append(Pick(n - 1), posts[n])
                   ELSE Pick(n - 1)
    IN  Pick(Len(posts))

collect_hn_claude_code_posts(given) ==
    LET st == HnClaudeCodeQueries(given, Len(hn_claude_code_queries))
    IN  Returns(Slice(UniqueByUrl(st.items), 0, HN_CLAUDE_CODE_CAP))
            @@ [issued |-> st.issued]

(***************************************************************************)
(* get_reddit_token, collect_reddit_posts,                                 *)
(* collect_reddit_tips_and_tutorials                                       *)
(***************************************************************************)
REDDIT_CAP == 20
REDDIT_TIPS_CAP == 10
REDDIT_LOOKBACK_DAYS == 14
REDDIT_MIN_SCORE == 5
REDDIT_MIN_COMMENTS == 3
REDDIT_SUMMARY_LENGTH == 300
REDDIT_TIPS_SUMMARY_LENGTH == 200

SUBREDDITS == << "ClaudeAI", "ChatGPTCoding", "LocalLLaMA", "artificial" >>

reddit_sorts == << "hot", "new" >>

CLAUDE_KEYWORDS ==
    { "claude", "anthropic", "claude code", "sonnet", "opus", "haiku",
      "claude api", "mcp", "model context protocol" }

reddit_tips_queries ==
    << "flair:tip", "flair:guide", "title:tips", "title:how to",
       "title:tutorial", "title:best practices" >>

\* auth: the credentials are missing, or the token request raises or
\* answers with a status and, for 200, a body whose access_token may be null.
get_reddit_token(auth) ==
    IF auth.kind = "no credentials" THEN None
    ELSE IF auth.kind = "raise" THEN None
    ELSE IF auth.status = 200 THEN auth.hits
    ELSE None

reddit_category(content, flair) ==
    IF AnyIn({"claude code", "terminal", "cli", "vscode"}, content)
    THEN "claude_code"
    ELSE IF AnyIn({"tip", "guide", "tutorial"}, lower(flair))
    THEN "tutorials_and_tips"
    ELSE IF AnyIn({"workflow", "use case", "project"}, content)
    THEN "use_cases"
    ELSE "community_discussions"

RedditPostStep(st, post, subreddit, t) ==
    LET post_id == post.id
        created == Get(post, "created_utc", 0)
        cutoff_timestamp == t - timedelta(REDDIT_LOOKBACK_DAYS)
        title == Get(post, "title", "")
        selftext == Get(post, "selftext", "")
        content == lower(title \o " " \o selftext)
        score == Get(post, "score", Some(0))
        num_comments == Get(post, "num_comments", Some(0))
        below == BelowEngagement(score, num_comments, REDDIT_MIN_SCORE,
                                 REDDIT_MIN_COMMENTS)
        flair_text == Get(post, "link_flair_text", Some(""))
        flair == IF flair_text = None THEN "" ELSE flair_text[1]
        permalink == Get(post, "permalink", "")
        summary == IF Len(selftext) > REDDIT_SUMMARY_LENGTH
                   THEN Slice(selftext, 0, REDDIT_SUMMARY_LENGTH) \o "..."
                   ELSE selftext
        seen == [st EXCEPT !.seen = @ \cup {post_id}]
    IN  IF post_id \in st.seen THEN st
        ELSE IF created < cutoff_timestamp THEN seen
        ELSE IF subreddit # "ClaudeAI" /\ ~AnyIn(CLAUDE_KEYWORDS, content)
        THEN seen
        ELSE IF below = "raise" THEN [seen EXCEPT !.raised = TRUE]
        ELSE IF below = "yes" THEN seen
        ELSE Emit(seen,
                  [title |-> title,
                   url |-> IF permalink # ""
                           THEN "https://www.reddit.com" \o permalink ELSE "",
                   summary |-> IF summary # "" THEN summary
                               ELSE "Discussion in r/" \o subreddit,
                   published |-> isoformat(created),
                   source |-> "Reddit r/" \o subreddit,
                   category |-> reddit_category(content, flair),
                   engagement |-> [score |-> Unwrap(score),
                                   comments |-> Unwrap(num_comments)],
                   flair |-> flair],
                  KeySum(score, num_comments, 2))

RECURSIVE RedditPosts(_, _, _, _, _)
RedditPosts(st, hits, n, subreddit, t) ==
    IF n = 0 THEN st
    ELSE LET before == RedditPosts(st, hits, n - 1, subreddit, t)
         IN  IF before.raised THEN before
             ELSE RedditPostStep(before, hits[n], subreddit, t)

\* The loop over the sorts of one subreddit, inside the try of that
\* subreddit: what raises in one sort ends the loop.
RECURSIVE RedditSorts(_, _, _, _, _)
RedditSorts(st, listings, k, j, t) ==
    IF j = 0 THEN st
    ELSE LET before == RedditSorts(st, listings, k, j - 1, t)
             issued == [before EXCEPT !.issued = Append(@, <<k, j>>)]
             answer == listings[k][j]
         IN  IF before.raised THEN before
             ELSE IF answer.kind = "raise" THEN [issued EXCEPT !.raised = TRUE]
             ELSE IF answer.status = 200
             THEN RedditPosts(issued, answer.hits, Len(answer.hits),
                              SUBREDDITS[k], t)
             ELSE issued

RECURSIVE RedditSubreddits(_, _, _)
RedditSubreddits(listings, k, t) ==
    IF k = 0 THEN NothingYet
    ELSE [RedditSorts(RedditSubreddits(listings, k - 1, t), listings, k,
                      Len(reddit_sorts), t)
              EXCEPT !.raised = FALSE]

collect_reddit_posts(given, t) ==
    LET token == get_reddit_token(given.auth)
        st == RedditSubreddits(given.listings, Len(SUBREDDITS), t)
    IN  IF token = None \/ token = Some("")
        THEN Returns(<<>>) @@ [issued |-> <<>>]
        ELSE IF Unsortable(st) THEN Propagates @@ [issued |-> st.issued]
        ELSE Returns(Slice(SortedItems(st), 0, REDDIT_CAP))
                 @@ [issued |-> st.issued]

RedditTipStep(st, post, t) ==
    LET post_id == post.id
        created == Get(post, "created_utc", 0)
        cutoff_timestamp == t - timedelta(REDDIT_LOOKBACK_DAYS)
        score == Get(post, "score", Some(0))
        seen == [st EXCEPT !.seen = @ \cup {post_id}]
    IN  IF post_id \in st.seen THEN st
        ELSE IF created < cutoff_timestamp THEN seen
        ELSE Emit(seen,
                  [title |-> Get(post, "title", ""),
                   url |-> "https://www.reddit.com" \o Get(post, "permalink", ""),
                   summary |-> Slice(Get(post, "selftext", ""), 0,
                                     REDDIT_TIPS_SUMMARY_LENGTH),
                   published |-> isoformat(created),
                   source |-> "Reddit r/ClaudeAI",
                   category |-> "tutorials_and_tips",
                   engagement |->
                       [score |-> Unwrap(score),
                        comments |-> Unwrap(Get(post, "num_comments", Some(0)))]],
                  score)

RECURSIVE RedditTips(_, _, _, _)
RedditTips(st, hits, n, t) ==
    IF n = 0 THEN st
    ELSE RedditTipStep(RedditTips(st, hits, n - 1, t), hits[n], t)

RECURSIVE RedditTipQueries(_, _, _)
RedditTipQueries(searches, k, t) ==
    IF k = 0 THEN NothingYet
    ELSE LET before == RedditTipQueries(searches, k - 1, t)
             issued == [before EXCEPT !.issued = Append(@, k)]
             answer == searches[k]
         IN  IF answer.kind = "raise" THEN issued
             ELSE IF answer.status = 200
             THEN RedditTips(issued, answer.hits, Len(answer.hits), t)
             ELSE issued

\* The sort compares the scores of at least two tips.
collect_reddit_tips_and_tutorials(given, t) ==
    LET token == get_reddit_token(given.auth)
        st == RedditTipQueries(given.searches, Len(reddit_tips_queries), t)
    IN  IF token = None \/ token = Some("")
        THEN Returns(<<>>) @@ [issued |-> <<>>]
        ELSE IF Len(st.items) <= 1 THEN Returns(st.items) @@ [issued |-> st.issued]
        ELSE IF Unsortable(st) THEN Propagates @@ [issued |-> st.issued]
        ELSE Returns(Slice(SortedItems(st), 0, REDDIT_TIPS_CAP))
                 @@ [issued |-> st.issued]

(***************************************************************************)
(* collect_github_projects, collect_recent_releases                        *)
(***************************************************************************)
GITHUB_CAP == 15
GITHUB_TOP_RESULTS == 10
GITHUB_MIN_STARS == 10
GITHUB_RECENT_DAYS == 90
RELEASES_PER_REPO == 3
RELEASE_LOOKBACK_DAYS == 30
RELEASE_BODY_LENGTH == 200

github_search_queries ==
    << "claude anthropic", "claude api", "anthropic sdk", "claude-code",
       "claude code cli", "mcp server anthropic", "model context protocol" >>

important_repos ==
    << "anthropics/anthropic-sdk-python", "anthropics/anthropic-sdk-typescript",
       "anthropics/anthropic-cookbook", "anthropics/courses",
       "anthropics/claude-code", "modelcontextprotocol/servers",
       "modelcontextprotocol/typescript-sdk", "modelcontextprotocol/python-sdk" >>

GithubRepoStep(st, repo, t) ==
    LET is_recent == (t - repo.updated_at) < timedelta(GITHUB_RECENT_DAYS)
        seen == [st EXCEPT !.seen = @ \cup {repo.full_name}]
    IN  IF repo.full_name \in st.seen THEN st
        ELSE IF repo.stargazers_count >= GITHUB_MIN_STARS \/ is_recent
        THEN Emit(seen,
                  [title |-> repo.full_name,
                   url |-> repo.html_url,
                   description |-> IF repo.description = None
                                      \/ repo.description = Some("")
                                   THEN "No description provided"
                                   ELSE repo.description[1],
                   stars |-> repo.stargazers_count,
                   language |-> repo.language,
                   updated |-> isoformat(repo.updated_at),
                   source |-> "GitHub",
                   category |-> "github_projects",
                   owner_avatar |-> IF repo.owner = None THEN None
                                    ELSE repo.owner[1].avatar_url],
                  Some(repo.stargazers_count))
        ELSE seen

RECURSIVE GithubRepos(_, _, _, _)
GithubRepos(st, hits, n, t) ==
    IF n = 0 THEN st
    ELSE GithubRepoStep(GithubRepos(st, hits, n - 1, t), hits[n], t)

\* The loop over search_queries, inside the one try of the function: what
\* raises in one search ends the loop.
RECURSIVE GithubQueries(_, _, _)
GithubQueries(searches, k, t) ==
    IF k = 0 THEN NothingYet
    ELSE LET before == GithubQueries(searches, k - 1, t)
             issued == [before EXCEPT !.issued = Append(@, k)]
             answer == searches[k]
             top == Slice(answer.hits, 0, GITHUB_TOP_RESULTS)
         IN  IF before.raised THEN before
             ELSE IF answer.kind = "raise" THEN [issued EXCEPT !.raised = TRUE]
             ELSE GithubRepos(issued, top, Len(top), t)

collect_github_projects(given, t) ==
    LET st == GithubQueries(given.searches, Len(github_search_queries), t)
    IN  IF ~given.github_token THEN Returns(<<>>) @@ [issued |-> <<>>]
        ELSE IF st.raised THEN Returns(st.items) @@ [issued |-> st.issued]
        ELSE Returns(Slice(SortedItems(st), 0, GITHUB_CAP))
                 @@ [issued |-> st.issued]

ReleaseStep(st, release, repo_name, t) ==
    IF (t - release.created_at) < timedelta(RELEASE_LOOKBACK_DAYS)
    THEN Emit(st,
              [title |-> repo_name \o ": "
                             \o (IF release.title = None THEN "None"
                                 ELSE release.title[1]),
               url |-> release.html_url,
               description |-> IF release.body = None \/ release.body = Some("")
                               THEN "No description"
                               ELSE Slice(release.body[1], 0, RELEASE_BODY_LENGTH),
               published |-> isoformat(release.created_at),
               source |-> "GitHub Releases",
               category |-> "github_projects"],
              None)
    ELSE st

RECURSIVE Releases(_, _, _, _, _)
Releases(st, hits, n, repo_name, t) ==
    IF n = 0 THEN st
    ELSE ReleaseStep(Releases(st, hits, n - 1, repo_name, t), hits[n],
                     repo_name, t)

\* The loop over important_repos: each pass is inside its own try.
RECURSIVE ReleaseRepos(_, _, _)
ReleaseRepos(repos, k, t) ==
    IF k = 0 THEN NothingYet
    ELSE LET before == ReleaseRepos(repos, k - 1, t)
             issued == [before EXCEPT !.issued = Append(@, k)]
             answer == repos[k]
             latest_releases == Slice(answer.hits, 0, RELEASES_PER_REPO)
         IN  IF answer.kind = "raise" THEN issued
             ELSE Releases(issued, latest_releases, Len(latest_releases),
                           important_repos[k], t)

collect_recent_releases(given, t) ==
    LET st == ReleaseRepos(given.repos, Len(important_repos), t)
    IN  IF ~given.github_token THEN Returns(<<>>) @@ [issued |-> <<>>]
        ELSE Returns(st.items) @@ [issued |-> st.issued]

(***************************************************************************)
(* collect_blog_posts                                                      *)
(***************************************************************************)
RSS_ENTRIES_PER_FEED == 20
RSS_LOOKBACK_DAYS == 7
RSS_SUMMARY_LENGTH == 300

rss_feeds ==
    << [url |-> "https://simonwillison.net/atom/everything/",
        source |-> "Simon Willison"],
       [url |-> "https://www.technologyreview.com/feed/",
        source |-> "MIT Technology Review"],
       [url |-> "https://techcrunch.com/feed/", source |-> "TechCrunch"],
       [url |-> "https://www.theverge.com/rss/index.xml",
        source |-> "The Verge"] >>

rss_keywords == {"claude", "anthropic"}

\* entry.title of an entry without a title is an AttributeError
RssEntryStep(st, entry, feed_config, t) ==
    LET summary == IF entry.summary = None THEN "" ELSE entry.summary[1]
        published_date ==
            IF entry.published_parsed # None THEN entry.published_parsed
            ELSE entry.updated_parsed
    IN  IF entry.title = None THEN [st EXCEPT !.raised = TRUE]
        ELSE IF ~(\E keyword \in rss_keywords :
                    \/ Contains(lower(entry.title[1]), keyword)
                    \/ Contains(lower(summary), keyword))
        THEN st
        ELSE IF published_date = None
                \/ (t - published_date[1]) < timedelta(RSS_LOOKBACK_DAYS)
        THEN Emit(st,
                  [title |-> entry.title[1],
                   url |-> entry.link,
                   summary |-> IF Len(summary) > RSS_SUMMARY_LENGTH
                               THEN Slice(summary, 0, RSS_SUMMARY_LENGTH) \o "..."
                               ELSE summary,
                   published |-> IF entry.published # None
                                 THEN entry.published[1]
                                 ELSE IF entry.updated # None
                                 THEN entry.updated[1] ELSE "",
                   source |-> feed_config.source,
                   category |-> "blog_posts"],
                  None)
        ELSE st

RECURSIVE RssEntries(_, _, _, _, _)
RssEntries(st, entries, n, feed_config, t) ==
    IF n = 0 THEN st
    ELSE LET before == RssEntries(st, entries, n - 1, feed_config, t)
         IN  IF before.raised THEN before
             ELSE RssEntryStep(before, entries[n], feed_config, t)

\* The loop over rss_feeds: each pass is inside its own try.
RECURSIVE RssFeeds(_, _, _)
RssFeeds(given, k, t) ==
    IF k = 0 THEN NothingYet
    ELSE LET before == RssFeeds(given, k - 1, t)
             issued == [before EXCEPT !.issued = Append(@, k)]
             answer == given[k]
             entries == Slice(answer.hits, 0, RSS_ENTRIES_PER_FEED)
         IN  IF answer.kind = "raise" THEN issued
             ELSE [RssEntries(issued, entries, Len(entries), rss_feeds[k], t)
                       EXCEPT !.raised = FALSE]

collect_blog_posts(given, t) ==
    LET st == RssFeeds(given, Len(rss_feeds), t)
    IN  Returns(st.items) @@ [issued |-> st.issued]

(***************************************************************************)
(* collect_anthropic_updates, scrape_anthropic_news, check_docs_updates    *)
(***************************************************************************)
NEWS_LINKS_CHECKED == 30
NEWS_LOOKBACK_DAYS == 14
NEWS_MIN_HEADING == 10
NEWS_MIN_SPAN == 15
NEWS_MIN_TITLE == 5
NEWS_SUMMARY_LENGTH == 300
DOCS_SUMMARY_LENGTH == 200

category_labels ==
    {"announcements", "product", "policy", "research", "company", "safety"}

docs_pages ==
    << [url |-> "https://docs.anthropic.com/en/release-notes/overview",
        name |-> "API Release Notes"],
       [url |-> "https://docs.anthropic.com/en/docs/welcome",
        name |-> "Documentation Updates"] >>

IsLetter(c) ==
    \E i \in 1..Len(UpperCase) :
        SubSeq(UpperCase, i, i) = c \/ SubSeq(LowerCase, i, i) = c

UpperChar(c) ==
    IF \E i \in 1..Len(LowerCase) : SubSeq(LowerCase, i, i) = c
    THEN LET i == CHOOSE j \in 1..Len(LowerCase) : SubSeq(LowerCase, j, j) = c
         IN  SubSeq(UpperCase, i, i)
    ELSE c

\* str.title: a letter that follows a letter is lowered, any other letter
\* is raised
RECURSIVE TitleFrom(_, _)
TitleFrom(text, i) ==
    IF i > Len(text) THEN ""
    ELSE LET c == SubSeq(text, i, i)
             after_letter == i > 1 /\ IsLetter(SubSeq(text, i - 1, i - 1))
         IN  (IF after_letter THEN LowerChar(c) ELSE UpperChar(c))
                 \o TitleFrom(text, i + 1)

str_title(text) == TitleFrom(text, 1)

\* The first candidate of a list that is no category label and longer
\* than `longer_than`, None when there is none
FirstGood(candidates, longer_than) ==
    LET good == { i \in DOMAIN candidates :
                    /\ lower(candidates[i]) \notin category_labels
                    /\ Len(candidates[i]) > longer_than }
    IN  IF good = {} THEN None
        ELSE Some(candidates[CHOOSE i \in good : \A j \in good : i <= j])

NewsLinkStep(st, link, t) ==
    LET cutoff_date == t - timedelta(NEWS_LOOKBACK_DAYS)
        seen == [st EXCEPT !.seen = @ \cup {link.href}]
        slug == replace_all(link.href, "/news/", "")
        slug_title == str_title(replace_all(slug, "-", " "))
        heading == FirstGood(link.headings, NEWS_MIN_HEADING)
        found == IF heading # None THEN heading
                 ELSE FirstGood(link.spans, NEWS_MIN_SPAN)
        chosen == IF found = None \/ found = Some("")
                     \/ lower(found[1]) \in category_labels
                  THEN slug_title ELSE found[1]
        summary == IF link.p = None THEN ""
                   ELSE IF lower(link.p[1]) # lower(chosen) THEN link.p[1]
                   ELSE ""
    IN  IF link.href \in st.seen \/ link.href = "/news" THEN st
        ELSE IF chosen = "" \/ Len(chosen) < NEWS_MIN_TITLE THEN seen
        ELSE IF link.time = None THEN seen
        ELSE IF link.time[1].parsed = None THEN seen
        ELSE IF link.time[1].parsed[1] < cutoff_date THEN seen
        ELSE Emit(seen,
                  [title |-> chosen,
                   url |-> "https://www.anthropic.com" \o link.href,
                   summary |-> IF Len(summary) > NEWS_SUMMARY_LENGTH
                               THEN Slice(summary, 0, NEWS_SUMMARY_LENGTH) \o "..."
                               ELSE summary,
                   published |-> link.time[1].text,
                   source |-> "Anthropic News",
                   category |-> "official_updates"],
                  None)

RECURSIVE NewsLinks(_, _, _, _)
NewsLinks(st, links, n, t) ==
    IF n = 0 THEN st
    ELSE NewsLinkStep(NewsLinks(st, links, n - 1, t), links[n], t)

scrape_anthropic_news(answer, t) ==
    LET news_links == Slice(answer.hits, 0, NEWS_LINKS_CHECKED)
    IN  IF answer.kind = "raise" THEN <<>>
        ELSE IF answer.status # 200 THEN <<>>
        ELSE NewsLinks(NothingYet, news_links, Len(news_links), t).items

DocsPageStep_ReportFirst(st, page, answer, t) ==
    LET content_hash == md5(answer.hits.main[1])
        old_hash == IF page.url \in DOMAIN st.cache THEN Some(st.cache[page.url])
                    ELSE None
        summary == IF answer.hits.first_heading = None
                   THEN "New updates available"
                   ELSE answer.hits.first_heading[1]
        cached == [st EXCEPT !.cache = Put(@, page.url, content_hash)]
    IN  IF answer.kind = "raise" THEN st
        ELSE IF answer.status # 200 THEN st
        ELSE IF answer.hits.main = None THEN st
        ELSE IF old_hash # Some(content_hash)
        THEN [cached EXCEPT !.updates = Append(@,
                  [title |-> "Anthropic " \o page.name \o " Updated",
                   url |-> page.url,
                   summary |-> "Changes detected: "
                                   \o Slice(summary, 0, DOCS_SUMMARY_LENGTH),
                   published |-> isoformat(t),
                   source |-> "Anthropic Docs",
                   category |-> "official_updates"])]
        ELSE cached

DocsPageStep_DatedTitle(st, page, answer, t) ==
    LET content_hash == md5(answer.hits.main[1])
        old_hash == IF page.url \in DOMAIN st.cache THEN Some(st.cache[page.url])
                    ELSE None
        summary == IF answer.hits.first_heading = None
                   THEN "New updates available"
                   ELSE answer.hits.first_heading[1]
        cached == [st EXCEPT !.cache = Put(@, page.url, content_hash)]
    IN  IF answer.kind = "raise" THEN st
        ELSE IF answer.status # 200 THEN st
        ELSE IF answer.hits.main = None THEN st
        ELSE IF old_hash # None /\ old_hash # Some(content_hash)
        THEN [cached EXCEPT !.updates = Append(@,
                  [title |-> "Anthropic " \o page.name \o " Updated "
                                 \o str(isoformat(t).date),
                   url |-> page.url,
                   summary |-> "Changes detected: "
                                   \o Slice(summary, 0, DOCS_SUMMARY_LENGTH),
                   published |-> isoformat(t),
                   source |-> "Anthropic Docs",
                   category |-> "official_updates"])]
        ELSE cached

\* One pass of the loop over docs_pages, inside its own try: st holds the
\* updates and the cache.
DocsPageStep(st, page, answer, t) ==
    LET content_hash == md5(answer.hits.main[1])
        old_hash == IF page.url \in DOMAIN st.cache THEN Some(st.cache[page.url])
                    ELSE None
        summary == IF answer.hits.first_heading = None
                   THEN "New updates available"
                   ELSE answer.hits.first_heading[1]
        cached == [st EXCEPT !.cache = Put(@, page.url, content_hash)]
    IN  IF answer.kind = "raise" THEN st
        ELSE IF answer.status # 200 THEN st
        ELSE IF answer.hits.main = None THEN st
        ELSE IF old_hash # None /\ old_hash # Some(content_hash)
        THEN [cached EXCEPT !.updates = Append(@,
                  [title |-> "Anthropic " \o page.name \o " Updated",
                   url |-> page.url,
                   summary |-> "Changes detected: "
                                   \o Slice(summary, 0, DOCS_SUMMARY_LENGTH),
                   published |-> isoformat(t),
                   source |-> "Anthropic Docs",
                   category |-> "official_updates"])]
        ELSE cached

RECURSIVE DocsPages(_, _, _, _)
DocsPages(cache, pages, k, t) ==
    IF k = 0 THEN [updates |-> <<>>, cache |-> cache]
    ELSE DocsPageStep(DocsPages(cache, pages, k - 1, t), docs_pages[k],
                      pages[k], t)

\* cache_file is None when the file is missing or is not JSON
check_docs_updates(cache_file, pages, t) ==
    DocsPages(IF cache_file = None THEN <<>> ELSE cache_file[1], pages,
              Len(docs_pages), t)

collect_anthropic_updates(given, t) ==
    LET docs == check_docs_updates(given.cache_file, given.pages, t)
    IN  Returns(scrape_anthropic_news(given.news, t) \o docs.updates)
            @@ [issued |-> <<1, 2, 3>>, cache_file |-> Some(docs.cache)]

(***************************************************************************)
(* Parts of the program that a specification does not drive stay idle.     *)
(***************************************************************************)
MainIdle ==
    /\ pc = "off"
    /\ run = 0
    /\ all_content = <<>>
    /\ new_content = <<>>
    /\ quality_content = <<>>
    /\ digest = None
    /\ img_tasks = <<>>
    /\ sum_tasks = <<>>
    /\ collected_before = {}
    /\ fault = "none"
    /\ exit_code = None

ImagesIdle ==
    /\ img_items = <<>>
    /\ img_before = <<>>
    /\ img_fetch_og = TRUE
    /\ img_pc = "idle"
    /\ tasks = <<>>

AdaptersIdle ==
    /\ adapter = "none"
    /\ answers = <<>>
    /\ returned = <<>>
    /\ adapter_pc = "idle"
    /\ docs_cache = None

LaterIdle == ImagesIdle /\ AdaptersIdle

(***************************************************************************)
(* The ledger driven directly through its three operations.                *)
(***************************************************************************)
LedgerItems ==
    { [url |-> "u/a", title |-> "b", source |-> "GitHub",
       category |-> "github_projects"],
      [url |-> "u/a", title |-> "b", source |-> "Hacker News",
       category |-> "community_discussions"],
      [url |-> "u/", title |-> "ab", source |-> "Dev.to",
       category |-> "blog_posts"],
      [url |-> "u/c", title |-> "d", source |-> "Reddit"] }

NoItem == [url |-> "", title |-> ""]

NoResponse == [kind |-> "none"]

NoOp == [name |-> "none", item |-> NoItem, days |-> 0, ret |-> FALSE,
         removed |-> 0]

LedgerInit ==
    /\ now = 0
    /\ db = <<>>
    /\ op = NoOp
    /\ items = <<>>
    /\ min_score = 0
    /\ scored_items = <<>>
    /\ rank_pc = "idle"
    /\ enrich_item = NoItem
    /\ response = NoResponse
    /\ enrich_pc = "idle"
    /\ MainIdle
    /\ LaterIdle

AddContentCall(item) ==
    /\ Len(db) < MaxDb
    /\ db' = add_content(db, item, now)
    /\ op' = [name |-> "add_content", item |-> item, days |-> 0, ret |-> FALSE,
              removed |-> 0]
    /\ UNCHANGED <<now, rankVars, enrichVars, mainVars, laterVars>>

IsDuplicateCall(item) ==
    /\ op' = [name |-> "is_duplicate", item |-> item, days |-> 0,
              ret |-> is_duplicate(db, item.url, item.title), removed |-> 0]
    /\ UNCHANGED <<now, db, rankVars, enrichVars, mainVars, laterVars>>

CleanupCall(days) ==
    /\ db' = cleanup_old_entries(db, days, now)
    /\ op' = [name |-> "cleanup_old_entries", item |-> NoItem, days |-> days,
              ret |-> FALSE, removed |-> Len(db) - Len(db')]
    /\ UNCHANGED <<now, rankVars, enrichVars, mainVars, laterVars>>

Tick ==
    /\ now < MaxNow
    /\ now' = now + 1
    /\ UNCHANGED <<db, op, rankVars, enrichVars, mainVars, laterVars>>

LedgerNext ==
    \/ \E item \in LedgerItems : AddContentCall(item)
    \/ \E item \in LedgerItems : IsDuplicateCall(item)
    \/ \E days \in 0..MaxRetention : CleanupCall(days)
    \/ Tick

SpecLedger == LedgerInit /\ [][LedgerNext]_vars

(***************************************************************************)
(* filter_and_rank_content called on a list of items drawn from a small    *)
(* universe that covers every bonus of the score and its thresholds.       *)
(***************************************************************************)
RECURSIVE Repeat(_, _)
Repeat(text, n) == IF n = 0 THEN "" ELSE text \o Repeat(text, n - 1)

Filler(n) == SubSeq(Repeat("lorem ipsum dolor sit amet ", 1 + n \div 27), 1, n)

RankItems ==
    { [title |-> "Hello world", url |-> "u/0", summary |-> "short text",
       source |-> "Dev.to", category |-> "blog_posts"],
      [title |-> "Claude Code tips", url |-> "u/1", summary |-> "",
       source |-> "Hacker News", category |-> "claude_code",
       engagement |-> [points |-> 120, comments |-> 60]],
      [title |-> "Anthropic memo", url |-> "u/2", source |-> "RSS",
       category |-> "blog_posts"],
      [title |-> "Claude notes", url |-> "u/3", source |-> "Reddit",
       category |-> "community_discussions",
       engagement |-> [score |-> -3, comments |-> 2]],
      [title |-> "acme/widgets", url |-> "u/4",
       description |-> "No description provided", stars |-> 600,
       source |-> "GitHub", category |-> "github_projects"],
      [title |-> "Weekly thread", url |-> "u/5", summary |-> "",
       source |-> "Dev.to", category |-> "blog_posts",
       engagement |-> [reactions |-> 60, comments |-> 25]],
      [title |-> "Hello", url |-> "u/8", summary |-> "",
       source |-> "Anthropic News", category |-> "official_updates"] }

MinScores == {15, 20}

\* Items for single calls of calculate_quality_score: every combination of a
\* title, a body, a source, an engagement dict and a star count.
ScoreTitles == {"Hello world", "Claude Code tips", "NEW Integration review"}

ScoreBodies ==
    { [summary |-> "short text"],
      [summary |-> Filler(200)],
      [summary |-> Filler(100), description |-> Filler(101)],
      [description |-> Filler(501)],
      [summary |-> "A Tutorial about the API"] }

ScoreSources == {"Dev.to", "Anthropic Docs"}

ScoreEngagements ==
    { <<>>,
      [engagement |-> <<>>],
      [engagement |-> [score |-> -3, comments |-> 21]],
      [engagement |-> [points |-> 0, reactions |-> 101, comments |-> 51]] }

ScoreStars == {<<>>, [stars |-> 0], [stars |-> 501]}

ScoreItems ==
    { [title |-> t, url |-> "u/s", source |-> src, category |-> "blog_posts"]
        @@ body @@ e @@ st :
        t \in ScoreTitles, body \in ScoreBodies, src \in ScoreSources,
        e \in ScoreEngagements, st \in ScoreStars }

RankInit ==
    /\ now = 0
    /\ db = <<>>
    /\ op = NoOp
    /\ items \in UNION {[1..n -> RankItems] : n \in 0..MaxRankLen}
                 \cup {<<x>> : x \in ScoreItems}
    /\ min_score \in MinScores
    /\ scored_items = <<>>
    /\ rank_pc = "call"
    /\ enrich_item = NoItem
    /\ response = NoResponse
    /\ enrich_pc = "idle"
    /\ MainIdle
    /\ LaterIdle

FilterAndRankCall ==
    /\ rank_pc = "call"
    /\ LET call == filter_and_rank_content(items, min_score)
       IN  /\ scored_items' = call.ret
           /\ items' = call.arg
    /\ rank_pc' = "done"
    /\ UNCHANGED <<ledgerVars, min_score, enrichVars, mainVars, laterVars>>

RankNext == FilterAndRankCall

SpecRank == RankInit /\ [][RankNext]_vars

(***************************************************************************)
(* enrich_item_with_summary called on one item, with the network answering *)
(* the request for the item's url by `response`.                           *)
(***************************************************************************)
PageTexts ==
    { "",
      "Short line",
      "A single line of text that is long enough to be kept.",
      "Share this post\n  Subscribe to our newsletter today and more!  \nShort\nThis line is long enough to be kept in the summary.\n",
      Repeat("It can now do many more things. ", 25),
      Filler(700),
      Filler(450) \o FullStopMarker \o Filler(200) }

Responses ==
    { [kind |-> "timeout"],
      [kind |-> "http", status |-> 404, text |-> "Not Found"] }
    \cup { [kind |-> "http", status |-> 200, text |-> t] : t \in PageTexts }

ExistingSummaries ==
    { <<>>, [summary |-> ""], [summary |-> "12 points, 3 comments on HN"],
      [summary |-> Filler(150)], [summary |-> Filler(200)],
      [summary |-> Filler(201)] }

EnrichUrls ==
    { "", "https://example.com/post", "https://github.com/acme/widgets",
      "https://github.com/acme" }

EnrichItems ==
    { [title |-> "Hello world", url |-> u, source |-> "RSS",
       category |-> "blog_posts"] @@ existing :
        u \in EnrichUrls, existing \in ExistingSummaries }

EnrichInit ==
    /\ now = 0
    /\ db = <<>>
    /\ op = NoOp
    /\ items = <<>>
    /\ min_score = 0
    /\ scored_items = <<>>
    /\ rank_pc = "idle"
    /\ enrich_item \in EnrichItems
    /\ response \in Responses
    /\ enrich_pc = "call"
    /\ MainIdle
    /\ LaterIdle

EnrichItemWithSummaryCall ==
    /\ enrich_pc = "call"
    /\ enrich_item' = enrich_item_with_summary(enrich_item, response)
    /\ enrich_pc' = "done"
    /\ UNCHANGED <<ledgerVars, rankVars, response, mainVars, laterVars>>

EnrichNext == EnrichItemWithSummaryCall

SpecEnrich == EnrichInit /\ [][EnrichNext]_vars

(***************************************************************************)
(* main(): one run collects from the nine adapters, drops what the ledger  *)
(* has seen, ranks, enriches, writes the digest and sweeps the ledger.     *)
(* The ledger file and the digest file stay on disk between runs.          *)
(***************************************************************************)
RETENTION_DAYS == 30
MAIN_MIN_SCORE == 15
REMAINING_END == 10
MAX_TOTAL_ITEMS == 10

Categories ==
    << "tutorials_and_tips", "use_cases", "claude_code", "official_updates",
       "community_discussions", "github_projects", "blog_posts" >>

\* What each adapter returns when its source answers, in the order of the
\* calls in main.
Catalogue ==
    << \* collect_anthropic_updates
       << [title |-> "Introducing Claude Opus",
           url |-> "https://www.anthropic.com/news/opus", summary |-> "",
           source |-> "Anthropic News", category |-> "official_updates"],
          [title |-> "Docs Update: Tool use",
           url |-> "https://docs.anthropic.com/tool-use",
           summary |-> "Changes detected: tool use",
           source |-> "Anthropic Docs", category |-> "official_updates"] >>,
       \* collect_github_projects
       << [title |-> "acme/claude-code-tools",
           url |-> "https://github.com/acme/claude-code-tools",
           description |-> "CLI helpers", stars |-> 600,
           source |-> "GitHub", category |-> "github_projects",
           owner_avatar |-> "https://avatars.example.com/acme"],
          [title |-> "acme/widgets", url |-> "https://github.com/acme/widgets",
           description |-> "No description provided", stars |-> 20,
           source |-> "GitHub", category |-> "github_projects",
           owner_avatar |-> "https://avatars.example.com/acme"] >>,
       \* collect_recent_releases
       << [title |-> "anthropics/claude-code: v1.2",
           url |-> "https://github.com/anthropics/claude-code/releases/v1.2",
           description |-> "Bug fixes", source |-> "GitHub Releases",
           category |-> "github_projects"] >>,
       \* collect_blog_posts
       << [title |-> "How to use the API",
           url |-> "https://simonwillison.net/api", summary |-> "A guide",
           source |-> "Simon Willison", category |-> "blog_posts"],
          [title |-> "Weekly notes", url |-> "https://simonwillison.net/notes",
           summary |-> "Notes about Claude", source |-> "Simon Willison",
           category |-> "blog_posts"] >>,
       \* collect_hackernews_discussions
       << [title |-> "Claude Code tips", url |-> "https://blog.example.com/tips",
           summary |-> "120 points, 60 comments on HN",
           source |-> "Hacker News", category |-> "community_discussions",
           engagement |-> [points |-> 120, comments |-> 60]],
          [title |-> "How to use the API",
           url |-> "https://simonwillison.net/api",
           summary |-> "30 points, 4 comments on HN",
           source |-> "Hacker News", category |-> "community_discussions",
           engagement |-> [points |-> 30, comments |-> 4]] >>,
       \* collect_hn_claude_code_posts
       << [title |-> "Claude Code tips", url |-> "https://blog.example.com/tips",
           summary |-> "Claude Code discussion on HN",
           source |-> "Hacker News", category |-> "claude_code",
           engagement |-> [points |-> 120]] >>,
       \* collect_reddit_posts
       << [title |-> "Claude prompt workflow",
           url |-> "https://reddit.com/r/ClaudeAI/1", summary |-> "",
           source |-> "Reddit r/ClaudeAI", category |-> "use_cases",
           engagement |-> [score |-> 60, comments |-> 25]],
          [title |-> "My agent project",
           url |-> "https://reddit.com/r/ClaudeAI/2", summary |-> "",
           source |-> "Reddit r/ClaudeAI", category |-> "use_cases",
           engagement |-> [score |-> -3, comments |-> 2]] >>,
       \* collect_reddit_tips_and_tutorials
       << [title |-> "Claude prompt workflow",
           url |-> "https://reddit.com/r/ClaudeAI/1", summary |-> "",
           source |-> "Reddit r/ClaudeAI", category |-> "tutorials_and_tips",
           engagement |-> [score |-> 60, comments |-> 25]],
          [title |-> "MCP tutorial", url |-> "https://reddit.com/r/ClaudeAI/3",
           summary |-> "", source |-> "Reddit r/ClaudeAI",
           category |-> "tutorials_and_tips",
           engagement |-> [score |-> 5, comments |-> 1]] >>,
       \* collect_devto_articles
       << [title |-> "Sonnet review", url |-> "https://dev.to/a/1",
           summary |-> "", source |-> "Dev.to", category |-> "blog_posts",
           engagement |-> [reactions |-> 21, comments |-> 0]],
          [title |-> "Anthropic memo", url |-> "https://dev.to/a/2",
           summary |-> "", source |-> "Dev.to", category |-> "blog_posts",
           engagement |-> [reactions |-> 0, comments |-> 0]],
          [title |-> "Claude notes", url |-> "https://dev.to/a/3",
           summary |-> "", source |-> "Dev.to", category |-> "blog_posts",
           engagement |-> [reactions |-> 0, comments |-> 0]] >> >>

Adapters == DOMAIN Catalogue

\* The sets of adapters whose sources answer in a run; an adapter whose
\* source fails, or whose credentials are missing, returns the empty list.
Worlds == { {}, {1, 2, 3}, {4, 5, 6, 7, 8, 9}, Adapters }

\* Days between the start of one run and the start of the next.
SleepDays == {1, 31}

RECURSIVE Concat(_)
Concat(lists) ==
    IF lists = <<>> THEN <<>> ELSE Head(lists) \o Concat(Tail(lists))

AdapterOutput(k, answering) == IF k \in answering THEN Catalogue[k] ELSE <<>>

\* What the Hacker News and Dev.to services send in the runs in which all
\* sources answer: one story and one article, well formed or with a null
\* count.
StoryPayload(num_comments) ==
    << Answer(200, << [objectID |-> "77",
                       title |-> "Claude Code in production",
                       url |-> "https://blog.example.com/production",
                       points |-> Some(9),
                       num_comments |-> num_comments,
                       created_at |-> "2026"] >>),
       Raises, Answer(503, <<>>), Answer(200, <<>>) >>

ArticlePayload(public_reactions_count, t) ==
    << Answer(200, << [id |-> 7,
                       title |-> Some("Claude tutorial for teams"),
                       description |-> Some("About Anthropic"),
                       url |-> "https://dev.to/a/7",
                       published_at |-> [kind |-> "iso", at |-> t],
                       tag_list |-> << "ai" >>,
                       user |-> [name |-> "Author 7"],
                       public_reactions_count |-> public_reactions_count,
                       comments_count |-> Some(4)] >>),
       Raises, Answer(500, <<>>), Answer(200, <<>>) >>

Payloads(t) ==
    { [hn |-> StoryPayload(Some(12)), devto |-> ArticlePayload(Some(20), t)],
      [hn |-> StoryPayload(None), devto |-> ArticlePayload(Some(20), t)],
      [hn |-> StoryPayload(Some(12)), devto |-> ArticlePayload(None, t)] }

\* A run's surroundings: the adapters whose sources answer and, where the
\* payloads of Hacker News and Dev.to are followed through the adapter
\* code, these payloads.
Surroundings(t) ==
    { [answering |-> a, payloads |-> None] : a \in Worlds }
    \cup { [answering |-> Adapters, payloads |-> Some(p)] : p \in Payloads(t) }

\* The k-th collect_* call of main: whether it raises, and what it returns.
AdapterCall(k, world, t) ==
    IF world.payloads # None /\ k = 5
    THEN collect_hackernews_discussions(world.payloads[1].hn)
    ELSE IF world.payloads # None /\ k = 9
    THEN collect_devto_articles(world.payloads[1].devto, t)
    ELSE Returns(AdapterOutput(k, world.answering))

\* The items at which a ledger call of the duplicate loop can fail.
LedgerFailPoints == {2}

\* sys.exit of __main__: main raised, or returned a digest with total_items.
ExitStatus_SwallowError(raised, total_items) ==
    IF total_items = 0 /\ ~raised THEN 1 ELSE 0

ExitStatus(raised, total_items) ==
    IF raised THEN 1 ELSE IF total_items = 0 THEN 1 ELSE 0

\* The page behind a url as the image pass sees it.
WebPage(url) ==
    CASE get_domain(url) = "anthropic.com" ->
             [kind |-> "http", status |-> 200,
              meta |-> <<"https://cdn.anthropic.com/opus.png">>]
      [] get_domain(url) = "simonwillison.net" ->
             [kind |-> "http", status |-> 200,
              meta |-> <<"https://t.example.com/Pixel.gif",
                         "https://simonwillison.net/card.png">>]
      [] get_domain(url) = "dev.to" ->
             [kind |-> "http", status |-> 200, meta |-> <<>>]
      [] get_domain(url) = "blog.example.com" ->
             [kind |-> "http", status |-> 500, meta |-> <<>>]
      [] OTHER -> [kind |-> "timeout"]

\* The answer to the request the summary pass makes for a url.
WebText(url) ==
    CASE get_domain(url) = "anthropic.com" ->
             [kind |-> "http", status |-> 200,
              text |-> Repeat("It can now do many more things. ", 25)]
      [] get_domain(url) = "github.com" ->
             [kind |-> "http", status |-> 404, text |-> "Not Found"]
      [] get_domain(url) = "simonwillison.net" -> [kind |-> "timeout"]
      [] get_domain(url) = "dev.to" ->
             [kind |-> "http", status |-> 200,
              text |-> "A single line of text that is long enough to be kept."]
      [] get_domain(url) = "blog.example.com" ->
             [kind |-> "http", status |-> 200, text |-> ""]
      [] OTHER -> [kind |-> "http", status |-> 200, text |-> "Short line"]

Key(it) == <<it.url, it.title>>

Keys(list) == [i \in DOMAIN list |-> Key(list[i])]

IsNew_Always(d, it) == TRUE

IsNew(d, it) == ~is_duplicate(d, it.url, it.title)

RECURSIVE DedupPass_AgainstStart(_, _, _, _)
DedupPass_AgainstStart(d, content, n, t) ==
    IF n = 0 THEN [db |-> d, new_content |-> <<>>]
    ELSE LET before == DedupPass_AgainstStart(d, content, n - 1, t)
         IN  IF IsNew(d, content[n])
             THEN [db |-> add_content(before.db, content[n], t),
                   new_content |-> Append(before.new_content, content[n])]
             ELSE before

\* The loop of main over all_content: the ledger and new_content after the
\* first n items.
RECURSIVE DedupPass(_, _, _, _)
DedupPass(d, content, n, t) ==
    IF n = 0 THEN [db |-> d, new_content |-> <<>>]
    ELSE LET before == DedupPass(d, content, n - 1, t)
         IN  IF IsNew(before.db, content[n])
             THEN [db |-> add_content(before.db, content[n], t),
                   new_content |-> Append(before.new_content, content[n])]
             ELSE before

enrich_items_with_images(list, fetch_og) ==
    IF ~fetch_og
    THEN [i \in DOMAIN list |->
             IF ~Truthy(list[i], "image_url") /\ ~Truthy(list[i], "owner_avatar")
             THEN LET image == get_fallback_image(Get(list[i], "url", ""))
                  IN  Put(list[i], "image_url",
                          IF image = None THEN "" ELSE image[1])
             ELSE list[i]]
    ELSE [i \in DOMAIN list |->
             get_image_for_item(list[i], TRUE, WebPage(Get(list[i], "url", "")))]

enrich_items_with_summaries_Rescored(list) ==
    [i \in DOMAIN list |->
        LET enriched == enrich_item_with_summary(
                            list[i], WebText(Get(list[i], "url", "")))
        IN  Put(enriched, "quality_score", calculate_quality_score(enriched))]

enrich_items_with_summaries(list) ==
    [i \in DOMAIN list |->
        enrich_item_with_summary(list[i], WebText(Get(list[i], "url", "")))]

\* The items handed to executor.submit by a pass over list.
Submitted(list) == Keys(list)

FeaturedItem(ranked) == IF ranked # <<>> THEN Some(ranked[1]) ELSE None

RemainingItems_FromFirst(ranked) ==
    IF Len(ranked) > 1 THEN Slice(ranked, 0, REMAINING_END) ELSE <<>>

RemainingItems(ranked) ==
    IF Len(ranked) > 1 THEN Slice(ranked, 1, REMAINING_END) ELSE <<>>

Bucket_Everything(list, category) == list

Bucket(list, category) ==
    SelectSeq(list, LAMBDA it : Get(it, "category", "") = category)

TotalItems_Uncapped(ranked) == Len(ranked)

TotalItems(ranked) == Min(Len(ranked), MAX_TOTAL_ITEMS)

DigestData(ranked, t) ==
    LET remaining_items == RemainingItems(ranked)
    IN  [generated_at |-> isoformat(t),
         total_items |-> TotalItems(ranked),
         featured_item |-> FeaturedItem(ranked),
         items |-> remaining_items,
         tutorials_and_tips |-> Bucket(remaining_items, "tutorials_and_tips"),
         use_cases |-> Bucket(remaining_items, "use_cases"),
         claude_code |-> Bucket(remaining_items, "claude_code"),
         official_updates |-> Bucket(remaining_items, "official_updates"),
         community_discussions |->
             Bucket(remaining_items, "community_discussions"),
         github_projects |-> Bucket(remaining_items, "github_projects"),
         blog_posts |-> Bucket(remaining_items, "blog_posts")]

MainInit ==
    /\ now = 0
    /\ db = <<>>
    /\ op = NoOp
    /\ items = <<>>
    /\ min_score = 0
    /\ scored_items = <<>>
    /\ rank_pc = "idle"
    /\ enrich_item = NoItem
    /\ response = NoResponse
    /\ enrich_pc = "idle"
    /\ pc = "start"
    /\ run = 1
    /\ all_content = <<>>
    /\ new_content = <<>>
    /\ quality_content = <<>>
    /\ digest = None
    /\ img_tasks = <<>>
    /\ sum_tasks = <<>>
    /\ collected_before = {}
    /\ fault = "none"
    /\ exit_code = None
    /\ LaterIdle

otherVars == <<op, rankVars, enrichVars, laterVars>>

\* ContentDatabase(db_path) raises: main ends before the first adapter.
OpenLedgerFails ==
    /\ pc = "start"
    /\ pc' = "failed"
    /\ fault' = "ledger"
    /\ UNCHANGED <<now, db, otherVars, run, all_content, new_content,
                   quality_content, digest, img_tasks, sum_tasks,
                   collected_before, exit_code>>

\* The nine collect_* calls and the concatenation; an exception that leaves
\* an adapter leaves main.
Collect(world) ==
    /\ pc = "start"
    /\ LET calls == [k \in Adapters |-> AdapterCall(k, world, now)]
       IN  IF \E k \in Adapters : calls[k].raised
           THEN /\ pc' = "failed"
                /\ fault' = "adapter"
                /\ UNCHANGED all_content
           ELSE /\ pc' = "collected"
                /\ all_content' = Concat([k \in Adapters |-> calls[k].items])
                /\ UNCHANGED fault
    /\ UNCHANGED <<now, db, otherVars, run, new_content, quality_content,
                   digest, img_tasks, sum_tasks, collected_before, exit_code>>

\* The pass with the recording put off until the digest is written.
FilterDuplicates_Deferred ==
    /\ pc = "collected"
    /\ new_content' = DedupPass(db, all_content, Len(all_content), now).new_content
    /\ pc' = "deduped"
    /\ UNCHANGED <<now, db, otherVars, run, all_content, quality_content,
                   digest, img_tasks, sum_tasks, collected_before, fault,
                   exit_code>>

FilterDuplicates ==
    /\ pc = "collected"
    /\ LET pass == DedupPass(db, all_content, Len(all_content), now)
       IN  /\ db' = pass.db
           /\ new_content' = pass.new_content
    /\ pc' = "deduped"
    /\ UNCHANGED <<now, otherVars, run, all_content, quality_content, digest,
                   img_tasks, sum_tasks, collected_before, fault, exit_code>>

\* is_duplicate or add_content raises at the n-th item: the ledger keeps
\* what the loop recorded before, and the exception leaves main.
FilterDuplicatesFails(n) ==
    /\ pc = "collected"
    /\ n <= Len(all_content)
    /\ db' = DedupPass(db, all_content, n - 1, now).db
    /\ pc' = "failed"
    /\ fault' = "ledger"
    /\ UNCHANGED <<now, otherVars, run, all_content, new_content,
                   quality_content, digest, img_tasks, sum_tasks,
                   collected_before, exit_code>>

FilterAndRank ==
    /\ pc = "deduped"
    /\ LET call == filter_and_rank_content(new_content, MAIN_MIN_SCORE)
       IN  /\ quality_content' = call.ret
           /\ new_content' = call.arg
    /\ pc' = "ranked"
    /\ UNCHANGED <<now, db, otherVars, run, all_content, digest, img_tasks,
                   sum_tasks, collected_before, fault, exit_code>>

EnrichImages ==
    /\ pc = "ranked"
    /\ img_tasks' = Submitted(quality_content)
    /\ quality_content' = enrich_items_with_images(quality_content, TRUE)
    /\ pc' = "images"
    /\ UNCHANGED <<now, db, otherVars, run, all_content, new_content, digest,
                   sum_tasks, collected_before, fault, exit_code>>

EnrichSummaries ==
    /\ pc = "images"
    /\ sum_tasks' = Submitted(quality_content)
    /\ quality_content' = enrich_items_with_summaries(quality_content)
    /\ pc' = "summaries"
    /\ UNCHANGED <<now, db, otherVars, run, all_content, new_content, digest,
                   img_tasks, collected_before, fault, exit_code>>

WriteDigest ==
    /\ pc = "summaries"
    /\ digest' = Some(DigestData(quality_content, now))
    /\ pc' = "written"
    /\ UNCHANGED <<now, db, otherVars, run, all_content, new_content,
                   quality_content, img_tasks, sum_tasks, collected_before,
                   fault, exit_code>>

\* open(output_path, 'w') raises: the file stays as the last successful run
\* wrote it, and the exception leaves main.
WriteDigestFails ==
    /\ pc = "summaries"
    /\ pc' = "failed"
    /\ fault' = "digest"
    /\ UNCHANGED <<now, db, otherVars, run, all_content, new_content,
                   quality_content, digest, img_tasks, sum_tasks,
                   collected_before, exit_code>>

Cleanup_AtStart ==
    /\ pc \in {"start", "written"}
    /\ db' = cleanup_old_entries(db, RETENTION_DAYS, now)
    /\ pc' = IF pc = "written" THEN "done" ELSE pc
    /\ UNCHANGED <<now, otherVars, run, all_content, new_content,
                   quality_content, digest, img_tasks, sum_tasks,
                   collected_before, fault, exit_code>>

Cleanup ==
    /\ pc = "written"
    /\ db' = cleanup_old_entries(db, RETENTION_DAYS, now)
    /\ pc' = "done"
    /\ UNCHANGED <<now, otherVars, run, all_content, new_content,
                   quality_content, digest, img_tasks, sum_tasks,
                   collected_before, fault, exit_code>>

\* cleanup_old_entries raises: the digest file is written, and the
\* exception leaves main.
CleanupFails ==
    /\ pc = "written"
    /\ pc' = "failed"
    /\ fault' = "ledger"
    /\ UNCHANGED <<now, db, otherVars, run, all_content, new_content,
                   quality_content, digest, img_tasks, sum_tasks,
                   collected_before, exit_code>>

\* __main__: the exit status after main returned or raised.
Exit ==
    /\ pc \in {"done", "failed"}
    /\ exit_code' = Some(ExitStatus(pc = "failed",
                                    IF pc = "done" THEN digest[1].total_items
                                    ELSE 0))
    /\ pc' = "exited"
    /\ UNCHANGED <<now, db, otherVars, run, all_content, new_content,
                   quality_content, digest, img_tasks, sum_tasks,
                   collected_before, fault>>

\* The process has exited; the next run starts days later with the two
\* files as the last run left them.
NextRun(days) ==
    /\ pc = "exited"
    /\ run < MaxRuns
    /\ run' = run + 1
    /\ now' = now + timedelta(days)
    /\ collected_before' = collected_before \cup Range(Keys(all_content))
    /\ all_content' = <<>>
    /\ new_content' = <<>>
    /\ quality_content' = <<>>
    /\ img_tasks' = <<>>
    /\ sum_tasks' = <<>>
    /\ fault' = "none"
    /\ exit_code' = None
    /\ pc' = "start"
    /\ UNCHANGED <<db, otherVars, digest>>

Next ==
    \/ OpenLedgerFails
    \/ \E world \in Surroundings(now) : Collect(world)
    \/ FilterDuplicates
    \/ \E n \in LedgerFailPoints : FilterDuplicatesFails(n)
    \/ FilterAndRank
    \/ EnrichImages
    \/ EnrichSummaries
    \/ WriteDigest
    \/ Cleanup
    \/ CleanupFails
    \/ Exit
    \/ \E days \in SleepDays : NextRun(days)

Spec == MainInit /\ [][Next]_vars

(***************************************************************************)
(* Runs of main in which the sources answer or stay silent as a whole and  *)
(* the digest file may be impossible to open for writing.                  *)
(***************************************************************************)
WriteFaultNext ==
    \/ \E answering \in Worlds :
           Collect([answering |-> answering, payloads |-> None])
    \/ FilterDuplicates
    \/ FilterAndRank
    \/ EnrichImages
    \/ EnrichSummaries
    \/ WriteDigest
    \/ WriteDigestFails
    \/ Cleanup
    \/ Exit
    \/ \E days \in SleepDays : NextRun(days)

SpecWriteFault == MainInit /\ [][WriteFaultNext]_vars

(***************************************************************************)
(* The two enrichment passes applied to a list whose items may already     *)
(* have an image.                                                          *)
(***************************************************************************)
MaxImgLen == 2

ImageUrls ==
    { "", "https://www.anthropic.com/news/opus", "https://simonwillison.net/api",
      "https://blog.example.com/tips", "https://dev.to/a/1" }

ExistingImages ==
    { <<>>, [image_url |-> ""],
      [image_url |-> "https://img.example.com/own.png"] }

ExistingAvatars ==
    { <<>>, [owner_avatar |-> "https://avatars.example.com/acme"] }

ImageItems ==
    { [title |-> "Hello world", url |-> u, summary |-> "",
       source |-> "RSS", category |-> "blog_posts"] @@ image @@ avatar :
        u \in ImageUrls, image \in ExistingImages, avatar \in ExistingAvatars }

ImageInit ==
    /\ now = 0
    /\ db = <<>>
    /\ op = NoOp
    /\ items = <<>>
    /\ min_score = 0
    /\ scored_items = <<>>
    /\ rank_pc = "idle"
    /\ enrich_item = NoItem
    /\ response = NoResponse
    /\ enrich_pc = "idle"
    /\ MainIdle
    /\ img_items \in UNION { [1..n -> ImageItems] : n \in 0..MaxImgLen }
    /\ img_before = img_items
    /\ img_fetch_og \in BOOLEAN
    /\ img_pc = "start"
    /\ tasks = <<>>
    /\ AdaptersIdle

ImagesPass ==
    /\ img_pc = "start"
    /\ img_items' = enrich_items_with_images(img_items, img_fetch_og)
    /\ img_pc' = "images"
    /\ UNCHANGED <<ledgerVars, rankVars, enrichVars, mainVars, img_before,
                   img_fetch_og, tasks, adapterVars>>

SummariesPass ==
    /\ img_pc = "images"
    /\ img_items' = enrich_items_with_summaries(img_items)
    /\ img_pc' = "end"
    /\ UNCHANGED <<ledgerVars, rankVars, enrichVars, mainVars, img_before,
                   img_fetch_og, tasks, adapterVars>>

ImageNext == ImagesPass \/ SummariesPass

SpecImages == ImageInit /\ [][ImageNext]_vars

(***************************************************************************)
(* The two enrichment passes task by task: executor.submit hands every     *)
(* item to the pool, the tasks finish in any order, and the pass returns   *)
(* when as_completed has delivered every future.  Any pending task may be  *)
(* the next to finish, which covers every order the pool's max_workers     *)
(* permits.  tasks[i] is the state of the task of the i-th item.           *)
(***************************************************************************)
MaxTaskLen == 3

TaskItems ==
    { [title |-> "Opus", url |-> "https://www.anthropic.com/news/opus",
       summary |-> "", source |-> "Anthropic", category |-> "official_updates"],
      [title |-> "API", url |-> "https://simonwillison.net/api",
       summary |-> "A guide", source |-> "Simon Willison",
       category |-> "blog_posts",
       image_url |-> "https://img.example.com/own.png"],
      [title |-> "Ask", url |-> "", summary |-> "", source |-> "Hacker News",
       category |-> "community_discussions"] }

TasksInit ==
    /\ now = 0
    /\ db = <<>>
    /\ op = NoOp
    /\ items = <<>>
    /\ min_score = 0
    /\ scored_items = <<>>
    /\ rank_pc = "idle"
    /\ enrich_item = NoItem
    /\ response = NoResponse
    /\ enrich_pc = "idle"
    /\ MainIdle
    /\ img_items \in UNION { [1..n -> TaskItems] : n \in 0..MaxTaskLen }
    /\ img_before = img_items
    /\ img_fetch_og = TRUE
    /\ img_pc = "start"
    /\ tasks = <<>>
    /\ AdaptersIdle

Pending(i) == i \in DOMAIN tasks /\ tasks[i] = "pending"

AllDelivered == \A i \in DOMAIN tasks : tasks[i] # "pending"

restVars == <<ledgerVars, rankVars, enrichVars, mainVars, adapterVars>>

\* enrich_items_with_images: executor.submit(fetch_image, item) for every item
SubmitImageTasks ==
    /\ img_pc = "start"
    /\ img_fetch_og
    /\ tasks' = [i \in DOMAIN img_items |-> "pending"]
    /\ img_before' = img_items
    /\ img_pc' = "image_tasks"
    /\ UNCHANGED <<restVars, img_items, img_fetch_og>>

\* fetch_image(item) returns: get_image_for_item has written the item
ImageTaskFinishes(i) ==
    /\ img_pc = "image_tasks"
    /\ Pending(i)
    /\ img_items' = [img_items EXCEPT ![i] =
           get_image_for_item(@, TRUE, WebPage(Get(@, "url", "")))]
    /\ tasks' = [tasks EXCEPT ![i] = "finished"]
    /\ UNCHANGED <<restVars, img_before, img_fetch_og, img_pc>>

\* fetch_image(item) raises before it writes the item; future.result()
\* raises in the loop of the pass, which logs it
ImageTaskRaises(i) ==
    /\ img_pc = "image_tasks"
    /\ Pending(i)
    /\ tasks' = [tasks EXCEPT ![i] = "raised"]
    /\ UNCHANGED <<restVars, img_items, img_before, img_fetch_og, img_pc>>

ReturnImages_NothingOnFailure ==
    /\ img_pc = "image_tasks"
    /\ AllDelivered
    /\ img_items' = IF \E i \in DOMAIN tasks : tasks[i] = "raised" THEN <<>>
                    ELSE img_items
    /\ img_pc' = "images"
    /\ UNCHANGED <<restVars, img_before, img_fetch_og, tasks>>

\* as_completed is exhausted, the with block ends: return items
ReturnImages ==
    /\ img_pc = "image_tasks"
    /\ AllDelivered
    /\ img_pc' = "images"
    /\ UNCHANGED <<restVars, img_items, img_before, img_fetch_og, tasks>>

\* enrich_items_with_summaries: an empty list is returned at once, else
\* executor.submit(enrich_item_with_summary, item, generator) for every item
SubmitSummaryTasks ==
    /\ img_pc = "images"
    /\ tasks' = [i \in DOMAIN img_items |-> "pending"]
    /\ img_before' = img_items
    /\ img_pc' = IF img_items = <<>> THEN "end" ELSE "summary_tasks"
    /\ UNCHANGED <<restVars, img_items, img_fetch_og>>

SummaryTaskFinishes_InCompletionOrder(i) ==
    /\ img_pc = "summary_tasks"
    /\ Pending(i)
    /\ LET done == Cardinality({j \in DOMAIN tasks : tasks[j] # "pending"})
       IN  img_items' = [img_items EXCEPT ![done + 1] =
               enrich_item_with_summary(img_before[i],
                   WebText(Get(img_before[i], "url", "")))]
    /\ tasks' = [tasks EXCEPT ![i] = "finished"]
    /\ UNCHANGED <<restVars, img_before, img_fetch_og, img_pc>>

\* the task returns the item it wrote: items[idx] = future.result()
SummaryTaskFinishes(i) ==
    /\ img_pc = "summary_tasks"
    /\ Pending(i)
    /\ img_items' = [img_items EXCEPT ![i] =
           enrich_item_with_summary(@, WebText(Get(@, "url", "")))]
    /\ tasks' = [tasks EXCEPT ![i] = "finished"]
    /\ UNCHANGED <<restVars, img_before, img_fetch_og, img_pc>>

\* the task raises before it writes the item; the pass logs it and leaves
\* items[idx] as it is
SummaryTaskRaises(i) ==
    /\ img_pc = "summary_tasks"
    /\ Pending(i)
    /\ tasks' = [tasks EXCEPT ![i] = "raised"]
    /\ UNCHANGED <<restVars, img_items, img_before, img_fetch_og, img_pc>>

ReturnSummaries ==
    /\ img_pc = "summary_tasks"
    /\ AllDelivered
    /\ img_pc' = "end"
    /\ UNCHANGED <<restVars, img_items, img_before, img_fetch_og, tasks>>

TasksNext ==
    \/ SubmitImageTasks
    \/ \E i \in DOMAIN tasks : ImageTaskFinishes(i)
    \/ \E i \in DOMAIN tasks : ImageTaskRaises(i)
    \/ ReturnImages
    \/ SubmitSummaryTasks
    \/ \E i \in DOMAIN tasks : SummaryTaskFinishes(i)
    \/ \E i \in DOMAIN tasks : SummaryTaskRaises(i)
    \/ ReturnSummaries

\* The loop over as_completed and the end of the with block go on as soon as
\* every future is done.
SpecTasks ==
    /\ TasksInit
    /\ [][TasksNext]_vars
    /\ WF_vars(ReturnImages)
    /\ WF_vars(ReturnSummaries)

(***************************************************************************)
(* One adapter called on the answers of its sub-queries.                   *)
(***************************************************************************)
AdapterDay == 60

Days(d) == timedelta(d)

\* The time of a hit, `age` days before the call.
Ago(age) == now - Days(age)

DevtoTitles ==
    << "Sonnet review", "Claude tutorial", "Claude Code cli notes",
       "Built a project with Claude", "AI news" >>

DevtoArticle(i) ==
    [id |-> i,
     title |-> Some(DevtoTitles[(i % 5) + 1] \o " " \o str(i)),
     description |-> Some(IF i % 2 = 0 THEN "" ELSE "About Anthropic"),
     url |-> "https://dev.to/a/" \o str(i),
     published_at |-> IF i % 7 = 0 THEN [kind |-> "unparseable"]
                      ELSE [kind |-> "iso",
                            at |-> Ago(IF i % 6 = 0 THEN 15 ELSE i % 6)],
     tag_list |-> IF i % 9 = 0 THEN << "AI", "Tips" >> ELSE << "ai" >>,
     user |-> [name |-> "Author " \o str(i)],
     public_reactions_count |-> Some((i * 7) % 23),
     comments_count |-> Some(i % 3)]

DevtoPage(first, last) ==
    [k \in 1..(last - first + 1) |-> DevtoArticle(first + k - 1)]

DevtoAnswers ==
    { Raises, Answer(500, <<>>), Answer(200, DevtoPage(1, 12)),
      Answer(200, DevtoPage(8, 24)),
      Answer(200, << DevtoArticle(31),
                     [DevtoArticle(32) EXCEPT !.public_reactions_count = None] >>),
      Answer(200, << DevtoArticle(33), [DevtoArticle(34) EXCEPT !.title = None],
                     DevtoArticle(35) >>) }

HnTitles == << "Claude Code tips", "Anthropic ships", "Show HN: agent" >>

HnHit(i) ==
    [objectID |-> str(i),
     title |-> HnTitles[(i % 3) + 1] \o " " \o str(i),
     url |-> IF i % 4 = 0 THEN "" ELSE "https://blog.example.com/" \o str(i),
     points |-> Some((i * 5) % 17),
     num_comments |-> Some((i * 3) % 7),
     created_at |-> "2026"]

HnPage(first, last) == [k \in 1..(last - first + 1) |-> HnHit(first + k - 1)]

HnAnswers ==
    { Raises, Answer(503, <<>>), Answer(200, HnPage(1, 12)),
      Answer(200, HnPage(8, 24)),
      Answer(200, << HnHit(31), [HnHit(32) EXCEPT !.points = None], HnHit(33) >>),
      Answer(200, << [HnHit(34) EXCEPT !.points = Some(9),
                                       !.num_comments = None] >>) }

\* The search for Claude Code posts returns stories and comments.
HnComment(i) ==
    [objectID |-> str(i),
     story_title |-> "Ask HN: tools " \o str((i % 5) + 1),
     story_id |-> str((i % 5) + 1),
     points |-> None,
     created_at |-> "2026"]

HnMixedPage(first, last) ==
    [k \in 1..(last - first + 1) |->
        IF (first + k) % 2 = 0 THEN HnHit(first + k - 1)
        ELSE HnComment(first + k - 1)]

HnClaudeCodeAnswers ==
    { Raises, Answer(503, <<>>), Answer(200, HnMixedPage(1, 12)),
      Answer(200, HnMixedPage(8, 24)) }

\* The ways of choosing, for every sub-query k, one of its answers.
Choices(subqueries, Answers(_)) ==
    { f \in [subqueries -> UNION { Answers(k) : k \in subqueries }] :
        \A k \in subqueries : f[k] \in Answers(k) }

RedditTitles ==
    << "Claude prompt workflow", "Claude Code cli", "Sonnet vs Opus",
       "General chatter" >>

RedditFlairs == << None, Some("Tips"), Some("Discussion") >>

RedditPost(i) ==
    [id |-> "t3_" \o str(i),
     created_utc |-> Ago(IF i % 6 = 0 THEN 15 ELSE i % 6),
     title |-> RedditTitles[(i % 4) + 1] \o " " \o str(i),
     selftext |-> IF i % 10 = 0 THEN Filler(REDDIT_SUMMARY_LENGTH + 20)
                  ELSE IF i % 5 = 1 THEN "" ELSE "My project notes",
     score |-> Some(((i * 7) % 19) - 2),
     num_comments |-> Some((i * 3) % 8),
     link_flair_text |-> RedditFlairs[(i % 3) + 1],
     permalink |-> IF i % 11 = 0 THEN "" ELSE "/r/sub/comments/" \o str(i)]

RedditPage(first, last) ==
    [k \in 1..(last - first + 1) |-> RedditPost(first + k - 1)]

RedditAuths ==
    { [kind |-> "no credentials"], Raises, Answer(401, None),
      Answer(200, None), Answer(200, Some("token")) }

RedditHotAnswers(k) ==
    { Raises, Answer(200, RedditPage(12 * (k - 1) + 1, 12 * (k - 1) + 8)) }
    \cup (IF k = 1
          THEN { Answer(403, <<>>),
                 Answer(200, << RedditPost(49),
                                [RedditPost(50) EXCEPT !.score = None],
                                RedditPost(51) >>) }
          ELSE {})

RedditNewAnswers(k) ==
    { Raises, Answer(200, RedditPage(12 * (k - 1) + 5, 12 * k)) }
    \cup (IF k = 4
          THEN { Answer(200, << [RedditPost(52) EXCEPT !.score = Some(9),
                                                       !.num_comments = None] >>) }
          ELSE {})

RedditListings ==
    { [k \in DOMAIN SUBREDDITS |-> << hot[k], new[k] >>] :
        hot \in Choices(DOMAIN SUBREDDITS, RedditHotAnswers),
        new \in Choices(DOMAIN SUBREDDITS, RedditNewAnswers) }

AllAnswered ==
    [k \in DOMAIN SUBREDDITS |->
        << Answer(200, RedditPage(12 * (k - 1) + 1, 12 * (k - 1) + 8)),
           Answer(200, RedditPage(12 * (k - 1) + 5, 12 * k)) >>]

RedditPostsInputs ==
    { [auth |-> Answer(200, Some("token")), listings |-> l] : l \in RedditListings }
    \cup { [auth |-> a, listings |-> AllAnswered] : a \in RedditAuths }

RedditTipAnswers(k) ==
    { Raises, Answer(200, RedditPage(1, 8)), Answer(200, RedditPage(5, 16)) }
    \cup (IF k = 6
          THEN { Answer(200, << [RedditPost(17) EXCEPT !.score = None] >>) }
          ELSE {})

RedditTipsInputs ==
    { [auth |-> Answer(200, Some("token")), searches |-> q] :
        q \in Choices(DOMAIN reddit_tips_queries, RedditTipAnswers) }
    \cup { [auth |-> a,
            searches |-> [k \in DOMAIN reddit_tips_queries |->
                             Answer(200, RedditPage(1, 8))]] : a \in RedditAuths }

GithubRepo(i) ==
    [full_name |-> "acme/repo-" \o str(i),
     html_url |-> "https://github.com/acme/repo-" \o str(i),
     description |-> IF i % 3 = 0 THEN None ELSE Some("Tools for Claude"),
     stargazers_count |-> (i * 37) % 50,
     language |-> IF i % 2 = 0 THEN Some("Python") ELSE None,
     updated_at |-> Ago(IF i % 4 = 0 THEN 120 ELSE i),
     owner |-> IF i % 5 = 0 THEN None
               ELSE Some([avatar_url |-> "https://avatars.example.com/acme"])]

GithubPage(first, last) ==
    [k \in 1..(last - first + 1) |-> GithubRepo(first + k - 1)]

GithubAnswers ==
    { Raises, Answer(200, GithubPage(1, 12)), Answer(200, GithubPage(8, 19)) }

GithubProjectsInputs ==
    { [github_token |-> TRUE, searches |-> q] :
        q \in [DOMAIN github_search_queries -> GithubAnswers] }
    \cup { [github_token |-> FALSE,
            searches |-> [k \in DOMAIN github_search_queries |->
                             Answer(200, GithubPage(1, 12))]] }

Release(k, i) ==
    [title |-> IF i = 2 THEN None ELSE Some("v" \o str(k) \o "." \o str(i)),
     html_url |-> "https://github.com/" \o important_repos[k] \o "/releases/"
                      \o str(i),
     body |-> IF i = 1 THEN Some(Filler(RELEASE_BODY_LENGTH + 10))
              ELSE IF i = 3 THEN None ELSE Some("Bug fixes"),
     created_at |-> Ago(IF i = 4 THEN 1 ELSE 12 * i + k)]

ReleasePage(k) == [i \in 1..((k % 4) + 1) |-> Release(k, i)]

ReleasesInputs ==
    { [github_token |-> TRUE,
       repos |-> [k \in DOMAIN important_repos |->
                     IF k \in failing THEN Raises
                     ELSE Answer(200, ReleasePage(k))]] :
        failing \in SUBSET DOMAIN important_repos }
    \cup { [github_token |-> FALSE,
            repos |-> [k \in DOMAIN important_repos |->
                          Answer(200, << Release(k, 1) >>)]] }

RssTitles ==
    << "Claude 4 lands", "Weekly links", "Anthropic raises funding",
       "Gadgets of the week" >>

RssEntry(i) ==
    [title |-> Some(RssTitles[(i % 4) + 1] \o " " \o str(i)),
     summary |-> IF i % 5 = 0 THEN None
                 ELSE IF i % 5 = 1 THEN Some(Filler(RSS_SUMMARY_LENGTH + 5))
                 ELSE IF i % 5 = 2 THEN Some("Notes on Claude")
                 ELSE Some("Other news"),
     link |-> "https://blog.example.com/post-" \o str(i),
     published_parsed |-> IF i % 3 = 0 THEN None
                          ELSE Some(Ago(IF i % 3 = 1 THEN 2 ELSE 9)),
     updated_parsed |-> IF i % 6 = 0 THEN None ELSE Some(Ago(3)),
     published |-> IF i % 3 = 0 THEN None ELSE Some("day-" \o str(i)),
     updated |-> IF i % 6 = 0 THEN None ELSE Some("upd-" \o str(i))]

RssPage(first, last) ==
    [k \in 1..(last - first + 1) |-> RssEntry(first + k - 1)]

RssAnswers ==
    { Raises,
      Answer(200, <<>>),
      Answer(200, RssPage(1, 24)),
      Answer(200, << RssEntry(30), [RssEntry(32) EXCEPT !.title = None],
                     RssEntry(34) >>) }

NewsSlugs ==
    << "claude-4-released", "ai", "3d-models-and-claude", "series-f" >>

NewsLink(i) ==
    [href |-> "/news/" \o NewsSlugs[(i % 4) + 1]
                  \o (IF i % 4 = 1 \/ i % 7 = 0 THEN "" ELSE "-" \o str(i)),
     headings |-> IF i % 3 = 0 THEN << "Product", "Introducing Claude 4" >>
                  ELSE IF i % 3 = 1 THEN << "Short" >> ELSE <<>>,
     spans |-> IF i % 2 = 0 THEN << "Announcements", "A span long enough here" >>
               ELSE << "Policy" >>,
     time |-> IF i % 5 = 0 THEN None
              ELSE IF i % 5 = 1 THEN Some([text |-> "soon", parsed |-> None])
              ELSE IF i % 5 = 2
              THEN Some([text |-> "old day", parsed |-> Some(Ago(20))])
              ELSE Some([text |-> "day " \o str(i), parsed |-> Some(Ago(i % 5))]),
     p |-> IF i % 4 = 0 THEN None
           ELSE IF i % 4 = 1 THEN Some("Claude 4 Released")
           ELSE IF i % 4 = 2 THEN Some(Filler(NEWS_SUMMARY_LENGTH + 5))
           ELSE Some("What is new")]

NewsPage(first, last) ==
    [k \in 1..(last - first + 1) |-> NewsLink(first + k - 1)]

NewsAnswers ==
    { Raises, Answer(500, <<>>), Answer(200, <<>>) }
    \cup { Answer(200, NewsPage(first, first + 11)) : first \in 1..12 }
    \cup { Answer(200, NewsPage(1, 40)) }

DocsPage(i) ==
    [main |-> IF i = 0 THEN None ELSE Some("release notes v" \o str(i)),
     first_heading |-> IF i = 2 THEN None
                       ELSE Some(IF i = 3 THEN Filler(DOCS_SUMMARY_LENGTH + 5)
                                 ELSE "Heading " \o str(i))]

DocsAnswers == { Raises, Answer(404, DocsPage(0)) }
               \cup { Answer(200, DocsPage(i)) : i \in 0..3 }

DocsCaches ==
    { None, Some(<<>>),
      Some(docs_pages[1].url :> md5("release notes v1")),
      Some(docs_pages[1].url :> md5("release notes v1")
           @@ docs_pages[2].url :> md5("release notes v3")) }

AnthropicInputs ==
    { [news |-> n, cache_file |-> c, pages |-> p] :
        n \in NewsAnswers, c \in DocsCaches,
        p \in [DOMAIN docs_pages -> DocsAnswers] }

AdapterInputs ==
    [collect_anthropic_updates |-> AnthropicInputs,
     collect_github_projects |-> GithubProjectsInputs,
     collect_recent_releases |-> ReleasesInputs,
     collect_blog_posts |-> [DOMAIN rss_feeds -> RssAnswers],
     collect_hackernews_discussions |->
         [DOMAIN hn_search_queries -> HnAnswers],
     collect_hn_claude_code_posts |->
         [DOMAIN hn_claude_code_queries -> HnClaudeCodeAnswers],
     collect_reddit_posts |-> RedditPostsInputs,
     collect_reddit_tips_and_tutorials |-> RedditTipsInputs,
     collect_devto_articles |-> [DOMAIN devto_search_params -> DevtoAnswers]]

AdapterNames == DOMAIN AdapterInputs

AdapterInit ==
    /\ now = Days(AdapterDay)
    /\ db = <<>>
    /\ op = NoOp
    /\ items = <<>>
    /\ min_score = 0
    /\ scored_items = <<>>
    /\ rank_pc = "idle"
    /\ enrich_item = NoItem
    /\ response = NoResponse
    /\ enrich_pc = "idle"
    /\ MainIdle
    /\ ImagesIdle
    /\ adapter \in AdapterNames
    /\ answers \in AdapterInputs[adapter]
    /\ returned = <<>>
    /\ adapter_pc = "call"
    /\ docs_cache = None

AdapterReturns(name, result) ==
    /\ adapter_pc = "call"
    /\ adapter = name
    /\ returned' = result
    /\ adapter_pc' = "returned"
    /\ UNCHANGED <<ledgerVars, rankVars, enrichVars, mainVars, imageVars,
                   adapter, answers, docs_cache>>

CollectDevtoArticles ==
    AdapterReturns("collect_devto_articles", collect_devto_articles(answers, now))

CollectAnthropicUpdates ==
    AdapterReturns("collect_anthropic_updates",
                   collect_anthropic_updates(answers, now))

CollectGithubProjects ==
    AdapterReturns("collect_github_projects",
                   collect_github_projects(answers, now))

CollectRecentReleases ==
    AdapterReturns("collect_recent_releases",
                   collect_recent_releases(answers, now))

CollectBlogPosts ==
    AdapterReturns("collect_blog_posts", collect_blog_posts(answers, now))

CollectHackernewsDiscussions ==
    AdapterReturns("collect_hackernews_discussions",
                   collect_hackernews_discussions(answers))

CollectHnClaudeCodePosts ==
    AdapterReturns("collect_hn_claude_code_posts",
                   collect_hn_claude_code_posts(answers))

CollectRedditPosts ==
    AdapterReturns("collect_reddit_posts", collect_reddit_posts(answers, now))

CollectRedditTipsAndTutorials ==
    AdapterReturns("collect_reddit_tips_and_tutorials",
                   collect_reddit_tips_and_tutorials(answers, now))

AdapterNext ==
    \/ CollectAnthropicUpdates
    \/ CollectGithubProjects
    \/ CollectRecentReleases
    \/ CollectBlogPosts
    \/ CollectHackernewsDiscussions
    \/ CollectHnClaudeCodePosts
    \/ CollectRedditPosts
    \/ CollectRedditTipsAndTutorials
    \/ CollectDevtoArticles

SpecAdapters == AdapterInit /\ [][AdapterNext]_vars

(***************************************************************************)
(* Runs of main in which only the Anthropic sources answer: the docs cache *)
(* file and the ledger carry over from run to run.                         *)
(***************************************************************************)
\* What a monitored page answers in a run: no answer, a page without main
\* content, or one of two contents.
DocsRunAnswers ==
    { Raises, Answer(200, DocsPage(0)), Answer(200, DocsPage(1)),
      Answer(200, DocsPage(2)) }

\* The news page does not answer.
DocsWorlds ==
    { [news |-> Raises, pages |-> p] :
        p \in [DOMAIN docs_pages -> DocsRunAnswers] }

\* The cache file when the first run starts: missing, or written by an
\* earlier run that found both pages.
DocsCacheFiles ==
    { None,
      Some(docs_pages[1].url :> md5(DocsPage(1).main[1])
           @@ docs_pages[2].url :> md5(DocsPage(1).main[1])) }

MaxDocsRuns == 2

DocsInit ==
    /\ now = 0
    /\ db = <<>>
    /\ op = NoOp
    /\ items = <<>>
    /\ min_score = 0
    /\ scored_items = <<>>
    /\ rank_pc = "idle"
    /\ enrich_item = NoItem
    /\ response = NoResponse
    /\ enrich_pc = "idle"
    /\ pc = "start"
    /\ run = 1
    /\ all_content = <<>>
    /\ new_content = <<>>
    /\ quality_content = <<>>
    /\ digest = None
    /\ img_tasks = <<>>
    /\ sum_tasks = <<>>
    /\ collected_before = {}
    /\ fault = "none"
    /\ exit_code = None
    /\ ImagesIdle
    /\ adapter = "none"
    /\ answers = <<>>
    /\ returned = <<>>
    /\ adapter_pc = "idle"
    /\ docs_cache \in DocsCacheFiles

\* The nine collect_* calls of main when the other eight adapters return the
\* empty list; check_docs_updates reads and rewrites the cache file.
CollectDocs(world) ==
    /\ pc = "start"
    /\ LET given == world @@ [cache_file |-> docs_cache]
           result == collect_anthropic_updates(given, now)
       IN  /\ adapter' = "collect_anthropic_updates"
           /\ answers' = given
           /\ returned' = result
           /\ docs_cache' = result.cache_file
           /\ all_content' = result.items
    /\ pc' = "collected"
    /\ UNCHANGED <<now, db, op, rankVars, enrichVars, imageVars, adapter_pc,
                   run, new_content, quality_content, digest, img_tasks,
                   sum_tasks, collected_before, fault, exit_code>>

NextDocsRun(days) == run < MaxDocsRuns /\ NextRun(days)

DocsNext ==
    \/ \E world \in DocsWorlds : CollectDocs(world)
    \/ FilterDuplicates
    \/ FilterAndRank
    \/ EnrichImages
    \/ EnrichSummaries
    \/ WriteDigest
    \/ Cleanup
    \/ Exit
    \/ \E days \in SleepDays : NextDocsRun(days)

SpecDocs == DocsInit /\ [][DocsNext]_vars

(***************************************************************************)
(* Ledger claims                                                           *)
(***************************************************************************)
Recorded(url, title) ==
    \E i \in DOMAIN db : db[i].url = url /\ db[i].title = title

\* C1: once an item with a given (url, title) has been recorded with
\* add_content, is_duplicate of any item with the same (url, title) returns
\* true, whatever the source and category of the two items.
C1_DuplicateAfterRecord ==
    (op.name = "is_duplicate" /\ Recorded(op.item.url, op.item.title))
        => op.ret = TRUE

C1_Witness ==
    /\ op.name = "is_duplicate"
    /\ op.ret = TRUE
    /\ \E i \in DOMAIN db :
          /\ db[i].url = op.item.url
          /\ db[i].title = op.item.title
          /\ db[i].category # Get(op.item, "category", "unknown")

\* C2: recording is idempotent: after add_content has been called twice with
\* an item of the same fingerprint the ledger holds exactly one entry with
\* that fingerprint, so no two entries of the ledger share a fingerprint.
C2_RecordIdempotent ==
    \A i, j \in DOMAIN db :
        db[i].fingerprint = db[j].fingerprint => i = j

AgeTicks(doc, t) == t - fromisoformat(doc.timestamp)

IsCleanupStep(days) ==
    /\ op'.name = "cleanup_old_entries"
    /\ op'.days = days
    /\ now' = now

\* C3: cleanup_old_entries(R) removes exactly the entries whose timestamp is
\* strictly older than R days before now; every other entry, one exactly R
\* days old included, stays in place, in order and unmodified.
C3_SweepExact ==
    [][\A days \in 0..MaxRetention :
          IsCleanupStep(days) =>
              db' = SelectSeq(db, LAMBDA doc :
                        ~(AgeTicks(doc, now) > days * TicksPerDay))]_vars

C3_Witness ==
    /\ op.name = "cleanup_old_entries"
    /\ op.days >= 1
    /\ op.removed >= 1
    /\ \E i \in DOMAIN db : AgeTicks(db[i], now) = op.days * TicksPerDay
    /\ \E i \in DOMAIN db : AgeTicks(db[i], now) = (op.days - 1) * TicksPerDay

(***************************************************************************)
(* Scoring and ranking claims                                              *)
(***************************************************************************)
Strip(item) == [k \in DOMAIN item \ {"quality_score"} |-> item[k]]

Count(list, x) == Cardinality({i \in DOMAIN list : Strip(list[i]) = x})

\* C4: filter_and_rank_content(items, min_score) returns exactly the input
\* items whose score is at least min_score, each as often as it was given, and
\* every returned item carries quality_score equal to its computed score.
C4_FilterExact ==
    rank_pc = "done" =>
        /\ \A k \in DOMAIN scored_items :
              /\ "quality_score" \in DOMAIN scored_items[k]
              /\ scored_items[k].quality_score
                     = calculate_quality_score(Strip(scored_items[k]))
              /\ scored_items[k].quality_score >= min_score
              /\ \E i \in DOMAIN items : Strip(items[i]) = Strip(scored_items[k])
        /\ \A i \in DOMAIN items :
              LET x == Strip(items[i])
              IN  Count(scored_items, x) =
                      IF calculate_quality_score(x) >= min_score
                      THEN Count(items, x) ELSE 0

C4_Witness ==
    /\ rank_pc = "done"
    /\ Len(scored_items) >= 1
    /\ Len(scored_items) < Len(items)
    /\ \E k \in DOMAIN scored_items : scored_items[k].quality_score = min_score

Ranked(list) == SelectSeq(list, LAMBDA x : "quality_score" \in DOMAIN x)

\* C5: the output of filter_and_rank_content is sorted non-increasing by
\* quality_score, and the returned items of any one score appear in the order
\* they had in the input.
C5_SortedStable ==
    rank_pc = "done" =>
        /\ \A i, j \in DOMAIN scored_items :
              i < j => scored_items[i].quality_score
                           >= scored_items[j].quality_score
        /\ \A k \in DOMAIN scored_items :
              LET v == scored_items[k].quality_score
              IN  SelectSeq(scored_items, LAMBDA x : x.quality_score = v)
                    = SelectSeq(Ranked(items), LAMBDA x : x.quality_score = v)

C5_Witness ==
    /\ rank_pc = "done"
    /\ \E i \in DOMAIN scored_items :
          /\ i + 1 \in DOMAIN scored_items
          /\ scored_items[i].quality_score = scored_items[i + 1].quality_score
          /\ scored_items[i] # scored_items[i + 1]
    /\ \E i, j \in DOMAIN Ranked(items) :
          i < j /\ Ranked(items)[i].quality_score < Ranked(items)[j].quality_score

AllKeywords ==
    Range(practical_keywords) \cup Range(claude_code_keywords)
        \cup Range(official_keywords) \cup Range(medium_keywords)

Body(item) == Get(item, "summary", "") \o Get(item, "description", "")

Baseline(item) ==
    /\ LET title == lower(Get(item, "title", ""))
           body == lower(Body(item))
       IN  \A keyword \in AllKeywords :
               ~Contains(title, keyword) /\ ~Contains(body, keyword)
    /\ Get(item, "source", "") \notin OfficialSources
    /\ Get(item, "engagement", <<>>) = <<>>
    /\ "stars" \notin DOMAIN item
    /\ Len(Body(item)) <= 200

\* C6: calculate_quality_score never returns a negative value, and it returns
\* 0 for an item with no keyword in title or body, a non-official source, no
\* engagement, no stars and at most 200 characters of summary+description.
C6_ScoreBaseline ==
    \A i \in DOMAIN items :
        LET x == Strip(items[i])
        IN  /\ calculate_quality_score(x) >= 0
            /\ Baseline(x) => calculate_quality_score(x) = 0

C6_Witness ==
    /\ rank_pc = "done"
    /\ \E i \in DOMAIN items :
          /\ Baseline(items[i])
          /\ Len(Body(items[i])) = 200
          /\ "engagement" \in DOMAIN items[i]
          /\ "quality_score" \notin DOMAIN items[i]

(***************************************************************************)
(* Summary enrichment claims                                               *)
(***************************************************************************)
SummaryOf(it) == Get(it, "summary", "")

ExtractionFailed(resp) ==
    resp.kind = "timeout" \/ resp.status # 200 \/ resp.text = ""

\* C10: the summary of an item after enrich_item_with_summary is at least as
\* long as before; it changes only to a strictly longer one, and when the
\* extraction fails, times out or yields nothing the item is left untouched.
C10_SummaryNeverShrinks ==
    [][(enrich_pc = "call" /\ enrich_pc' = "done") =>
          /\ Len(SummaryOf(enrich_item')) >= Len(SummaryOf(enrich_item))
          /\ SummaryOf(enrich_item') # SummaryOf(enrich_item)
                => Len(SummaryOf(enrich_item')) > Len(SummaryOf(enrich_item))
          /\ ExtractionFailed(response) => enrich_item' = enrich_item
          /\ enrich_item' \in {enrich_item,
                               Put(enrich_item, "summary",
                                   SummaryOf(enrich_item'))}]_vars

C10_Witness ==
    /\ enrich_pc = "done"
    /\ response.kind = "http"
    /\ response.status = 200
    /\ Len(response.text) > TARGET_SUMMARY_LENGTH
    /\ Len(SummaryOf(enrich_item)) > 200
    /\ startswith(response.text, SubSeq(SummaryOf(enrich_item), 1, 200))

(***************************************************************************)
(* Pipeline claims                                                         *)
(***************************************************************************)
Written == pc \in {"written", "done"}

Selected(d) ==
    IF d.featured_item = None THEN d.items ELSE <<d.featured_item[1]>> \o d.items

Bucketed(d) == Concat([k \in DOMAIN Categories |-> d[Categories[k]]])

SelectedKeys(d) == Range(Keys(Selected(d)))

DigestKeys(d) == SelectedKeys(d) \cup Range(Keys(Bucketed(d)))

\* C7: in the digest a run writes, featured_item is the first item of the
\* ranked list and scores at least as high as every item of `items`; `items`
\* is the next at most 9 ranked items in ranked order; featured_item is not
\* among `items`; no ranked item beyond position 10 is anywhere in the digest.
C7_TopTenSelection ==
    Written =>
        LET d == digest[1]
            ranked == quality_content
            n == Len(ranked)
        IN  /\ d.featured_item = (IF n = 0 THEN None ELSE Some(ranked[1]))
            /\ d.items = SubSeq(ranked, 2, Min(n, 10))
            /\ Len(d.items) <= 9
            /\ \A i \in DOMAIN d.items :
                   /\ d.featured_item[1].quality_score >= d.items[i].quality_score
                   /\ Key(d.items[i]) # Key(d.featured_item[1])
            /\ \A j \in 11..n : Key(ranked[j]) \notin DigestKeys(d)

C7_Witness ==
    /\ pc = "written"
    /\ Len(quality_content) > 10
    /\ Len(digest[1].items) = 9
    /\ Key(quality_content[11]) \notin DigestKeys(digest[1])
    /\ digest[1].featured_item[1].quality_score > digest[1].items[9].quality_score
    /\ \E k \in DOMAIN Categories : digest[1][Categories[k]] # <<>>

InLedger(k) == is_duplicate(db, k[1], k[2])

\* The ledger is only appended to, with the time of the run, between the
\* start of a run and its sweep: the entries older than the run are the
\* entries the run found.
InLedgerAtStart(k) ==
    \E i \in DOMAIN db :
        /\ db[i].fingerprint = get_fingerprint(k[1], k[2])
        /\ fromisoformat(db[i].timestamp) < now

C9_EnrichOnlySelected ==
    Written =>
        /\ Range(img_tasks) \subseteq SelectedKeys(digest[1])
        /\ Range(sum_tasks) \subseteq SelectedKeys(digest[1])

(***************************************************************************)
(* Image claims                                                            *)
(***************************************************************************)
HadImage(i) ==
    /\ "image_url" \in DOMAIN img_before[i]
    /\ img_before[i].image_url # ""

\* C11: an item that has a non-empty image_url when the image pass starts
\* has the same image_url after the image pass and after the summary pass,
\* with fetch_og set and with fetch_og unset.
C11_ImageKept ==
    img_pc \in {"images", "end"} =>
        \A i \in DOMAIN img_before :
            HadImage(i) =>
                /\ "image_url" \in DOMAIN img_items[i]
                /\ img_items[i].image_url = img_before[i].image_url

C11_Witness ==
    /\ img_pc = "end"
    /\ ~img_fetch_og
    /\ \E i, j \in DOMAIN img_before :
           /\ HadImage(i)
           /\ "owner_avatar" \notin DOMAIN img_before[i]
           /\ img_before[j].url = img_before[i].url
           /\ ~HadImage(j)
           /\ "image_url" \in DOMAIN img_items[j]
           /\ img_items[j].image_url # img_items[i].image_url

\* C12: in every digest total_items is at most 10 and is the number of
\* items shown, 1 for a featured_item plus the length of `items`; when no
\* item qualifies, total_items is 0, featured_item is null and `items` is
\* empty.
C12_TotalItems ==
    digest # None =>
        LET d == digest[1]
        IN  /\ d.total_items <= 10
            /\ d.total_items =
                   (IF d.featured_item # None THEN 1 ELSE 0) + Len(d.items)
            /\ (Written /\ quality_content = <<>>) =>
                   /\ d.total_items = 0
                   /\ d.featured_item = None
                   /\ d.items = <<>>

C12_Witness ==
    /\ pc = "written"
    /\ Len(quality_content) > 10
    /\ digest[1].total_items = 10
    /\ digest[1].featured_item # None
    /\ Len(digest[1].items) = 9

C12_WitnessNothingNew ==
    /\ pc = "written"
    /\ all_content # <<>>
    /\ quality_content = <<>>
    /\ digest[1].total_items = 0

\* C13: when adapters return, within one run, several items with the same
\* (url, title), whatever their source labels and even on an empty ledger,
\* that content is at most once in the digest (featured_item and `items`).
C13_OncePerRun ==
    Written =>
        LET shown == Selected(digest[1])
        IN  \A i, j \in DOMAIN shown :
                Key(shown[i]) = Key(shown[j]) => i = j

C13_Witness ==
    /\ pc = "written"
    /\ run = 1
    /\ \E i, j \in DOMAIN all_content :
           /\ i < j
           /\ Key(all_content[i]) = Key(all_content[j])
           /\ all_content[i].source # all_content[j].source
           /\ Key(all_content[i]) \in SelectedKeys(digest[1])
    /\ \E i, j \in DOMAIN all_content :
           /\ i < j
           /\ Key(all_content[i]) = Key(all_content[j])
           /\ all_content[i].source = all_content[j].source
           /\ Key(all_content[i]) \in SelectedKeys(digest[1])

(***************************************************************************)
(* Claims about the source adapters                                        *)
(***************************************************************************)
Returned == adapter_pc = "returned"

\* The sub-queries an adapter has to issue, in the order of its loops.
SubQueries(name) ==
    IF name = "collect_reddit_posts"
    THEN Concat([k \in DOMAIN SUBREDDITS |->
                    [j \in DOMAIN reddit_sorts |-> <<k, j>>]])
    ELSE LET n == CASE name = "collect_github_projects" ->
                          Len(github_search_queries)
                    [] name = "collect_recent_releases" -> Len(important_repos)
                    [] name = "collect_hackernews_discussions" ->
                          Len(hn_search_queries)
                    [] name = "collect_hn_claude_code_posts" ->
                          Len(hn_claude_code_queries)
                    [] name = "collect_reddit_tips_and_tutorials" ->
                          Len(reddit_tips_queries)
                    [] name = "collect_devto_articles" ->
                          Len(devto_search_params)
                    [] name = "collect_blog_posts" -> Len(rss_feeds)
                    [] name = "collect_anthropic_updates" -> 1 + Len(docs_pages)
         IN  [k \in 1..n |-> k]

\* C15: an adapter that has started its sub-queries issues every one of
\* them, whatever the earlier ones answered: an error on one sub-query does
\* not keep the remaining sub-queries from being issued.
C15_SubQueriesIndependent ==
    (Returned /\ returned.issued # <<>>) =>
        returned.issued = SubQueries(adapter)

\* The cap of each capped adapter.
Cap ==
    [collect_github_projects |-> GITHUB_CAP,
     collect_hackernews_discussions |-> HN_CAP,
     collect_hn_claude_code_posts |-> HN_CLAUDE_CODE_CAP,
     collect_reddit_posts |-> REDDIT_CAP,
     collect_reddit_tips_and_tutorials |-> REDDIT_TIPS_CAP,
     collect_devto_articles |-> DEVTO_CAP]

\* The engagement key of an item of a capped adapter.
EngagementKey(name, it) ==
    CASE name = "collect_github_projects" -> it.stars
      [] name = "collect_hackernews_discussions" ->
            it.engagement.points + it.engagement.comments
      [] name = "collect_hn_claude_code_posts" -> it.engagement.points
      [] name = "collect_reddit_posts" ->
            it.engagement.score + it.engagement.comments * 2
      [] name = "collect_reddit_tips_and_tutorials" -> it.engagement.score
      [] name = "collect_devto_articles" ->
            it.engagement.reactions + it.engagement.comments * 2

SortedByEngagement(name, list) ==
    \A i, j \in DOMAIN list :
        i < j => EngagementKey(name, list[i]) >= EngagementKey(name, list[j])

\* C16: what a capped adapter returns is never longer than its cap and is
\* in descending order of its engagement key, on every path, including the
\* paths on which a sub-query raised.
C16_CappedAndSorted ==
    (Returned /\ adapter \in DOMAIN Cap /\ ~returned.raised) =>
        /\ Len(returned.items) <= Cap[adapter]
        /\ SortedByEngagement(adapter, returned.items)

\* The part of C16 about the cap alone, which collect_github_projects breaks.
C16_Capped ==
    (Returned /\ adapter \in DOMAIN Cap /\ ~returned.raised) =>
        Len(returned.items) <= Cap[adapter]

\* C18, for each adapter on its own: every item an adapter returns has a
\* category, one of the seven.
C18_AdapterCategories ==
    (Returned /\ ~returned.raised) =>
        \A i \in DOMAIN returned.items :
            /\ "category" \in DOMAIN returned.items[i]
            /\ \E k \in DOMAIN Categories :
                   returned.items[i].category = Categories[k]

(***************************************************************************)
(* Claims about the outcome of a run                                       *)
(***************************************************************************)
Exited == pc = "exited"

WrittenThisRun == digest # None /\ digest[1].generated_at = isoformat(now)

\* C14: a failure inside one adapter never aborts the run: a run in which an
\* adapter failed still ends with a digest written by this run.
C14_AdapterFailureContained ==
    (Exited /\ fault = "adapter") => WrittenThisRun

Outcomes == {"success", "no new content", "error"}

\* What a run that has ended came to.
Outcome ==
    IF fault # "none" THEN "error"
    ELSE IF digest[1].total_items = 0 THEN "no new content"
    ELSE "success"

\* The exit status of a run with outcome o.
SignalOf(o) == ExitStatus(o = "error", IF o = "success" THEN 1 ELSE 0)

\* C17: the exit status of a run tells its outcome: no other outcome gives
\* the same status.
C17_DistinctSignals ==
    Exited => \A o \in Outcomes \ {Outcome} : SignalOf(o) # exit_code[1]

\* The categories of the items of a list that were collected in this run
\* are the ones their adapters gave them.
CategoriesKept(list) ==
    \A i \in DOMAIN list :
        \E j \in DOMAIN all_content :
            /\ Key(all_content[j]) = Key(list[i])
            /\ "category" \in DOMAIN list[i]
            /\ all_content[j].category = list[i].category

\* C18: every collected item carries one category of the seven, and the
\* duplicate filter, the ranking, the two enrichment passes and the digest
\* assembly leave the category of every item as its adapter set it.
C18_CategoryAssignedOnce ==
    /\ \A j \in DOMAIN all_content :
           /\ "category" \in DOMAIN all_content[j]
           /\ \E k \in DOMAIN Categories :
                  all_content[j].category = Categories[k]
    /\ CategoriesKept(new_content)
    /\ CategoriesKept(quality_content)
    /\ Written => /\ CategoriesKept(Selected(digest[1]))
                  /\ CategoriesKept(Bucketed(digest[1]))

C18_Witness ==
    /\ pc = "written"
    /\ \E i \in DOMAIN digest[1].items :
           /\ digest[1].items[i].url = "https://dev.to/a/7"
           /\ digest[1].items[i].category = "tutorials_and_tips"
           /\ "image_url" \in DOMAIN digest[1].items[i]
    /\ \E i \in DOMAIN digest[1].items :
           digest[1].items[i].source = "Hacker News"

\* C19: in every digest each category list is the subsequence of `items`
\* with that category, in the order of `items`; every element of `items` is
\* in exactly one category list; the lengths of the lists add up to the
\* length of `items`.
C19_BucketsPartitionItems ==
    digest # None =>
        LET d == digest[1]
        IN  /\ \A k \in DOMAIN Categories :
                   d[Categories[k]] =
                       SelectSeq(d.items,
                                 LAMBDA it : it.category = Categories[k])
            /\ \A i \in DOMAIN d.items :
                   Cardinality({k \in DOMAIN Categories :
                                   \E j \in DOMAIN d[Categories[k]] :
                                       d[Categories[k]][j] = d.items[i]}) = 1
            /\ Len(Bucketed(d)) = Len(d.items)

C19_Witness ==
    /\ pc = "written"
    /\ Len(digest[1].items) = 9
    /\ Cardinality({k \in DOMAIN Categories : digest[1][Categories[k]] # <<>>})
           >= 4
    /\ \E k \in DOMAIN Categories : Len(digest[1][Categories[k]]) >= 2

\* C20: a run in which a ledger call failed ends with the error status, and
\* writes no digest other than the complete one that precedes the sweep.
C20_LedgerFailureIsError ==
    (Exited /\ fault = "ledger") =>
        /\ exit_code = Some(1)
        /\ WrittenThisRun => digest[1] = DigestData(quality_content, now)

C20_Witness ==
    /\ Exited
    /\ fault = "ledger"
    /\ all_content # <<>>
    /\ db # <<>>
    /\ ~WrittenThisRun

C20_WitnessSweep ==
    /\ Exited
    /\ fault = "ledger"
    /\ WrittenThisRun
    /\ digest[1].total_items > 0

(***************************************************************************)
(* Claims about the fingerprint                                            *)
(***************************************************************************)
\* C30: is_duplicate(url, title) returns true only if an item with exactly
\* that url and exactly that title was recorded earlier: two items whose
\* (url, title) pairs differ never share a fingerprint.
C30_DuplicateOnlyIfSamePair ==
    (op.name = "is_duplicate" /\ op.ret = TRUE)
        => Recorded(op.item.url, op.item.title)

(***************************************************************************)
(* Claims about the ledger across the runs of main                         *)
(***************************************************************************)
FingerprintsDistinct(d) ==
    \A i, j \in DOMAIN d : i # j => d[i].fingerprint # d[j].fingerprint

RepeatedIn(list) ==
    \E i, j \in DOMAIN list : i # j /\ Key(list[i]) = Key(list[j])

\* C27: after the dedup pass of any run of main, the ledger has no two
\* entries with the same fingerprint, even when the collected items contain
\* the same (url, title) several times.
C27_LedgerFingerprintsDistinct ==
    pc \notin {"start", "collected"} => FingerprintsDistinct(db)

\* A later run's dedup pass over items that repeat a (url, title), some of
\* them recorded by an earlier run, has recorded new entries.
C27_Witness ==
    /\ pc = "deduped"
    /\ run > 1
    /\ RepeatedIn(all_content)
    /\ new_content # <<>>
    /\ \E i \in DOMAIN db : db[i].timestamp # isoformat(now)

EntryAdded == \E e \in Range(db') : e \notin Range(db)

EntryRemoved == \E e \in Range(db) : e \notin Range(db')

\* C23: within a run, every ledger write (add_content) happens in the single
\* dedup pass that runs after all adapters have returned and before scoring
\* starts, and the sweep (cleanup_old_entries) runs only after the last
\* add_content of that run, when the digest has been written.
C23_LedgerWritesInDedupPass ==
    [][ /\ EntryAdded =>
            /\ pc = "collected"
            /\ pc' \in {"deduped", "failed"}
            /\ quality_content = <<>>
            /\ ~EntryRemoved
        /\ EntryRemoved =>
            /\ pc = "written"
            /\ pc' = "done"
            /\ ~EntryAdded ]_vars

\* A run has recorded new items and then swept the entries an earlier run
\* recorded more than thirty days before.
C23_Witness ==
    /\ pc = "done"
    /\ run > 1
    /\ new_content # <<>>
    /\ \E key \in collected_before :
           /\ ~Recorded(key[1], key[2])
           /\ \A i \in DOMAIN all_content : Key(all_content[i]) # key

(***************************************************************************)
(* Claims about scoring and enrichment in a run of main                    *)
(***************************************************************************)
\* The item of new_content, as filter_and_rank_content left it, that became
\* the item it: its score is the one computed from that item.
ScoredBeforeEnrichment(it) ==
    \E i \in DOMAIN new_content :
        /\ Key(new_content[i]) = Key(it)
        /\ Get(new_content[i], "quality_score", -1) = it.quality_score
        /\ it.quality_score = calculate_quality_score(new_content[i])

\* C24: quality_score is assigned by filter_and_rank_content before any
\* enrichment and never changed afterwards: the quality_score of every ranked
\* item, and of every item stored in the digest, equals calculate_quality_score
\* of the item as it was before enrichment, even when the summary pass
\* replaced the summary.
C24_ScoreFromBeforeEnrichment ==
    /\ pc \in {"ranked", "images", "summaries", "written", "done"} =>
           \A i \in DOMAIN quality_content :
               ScoredBeforeEnrichment(quality_content[i])
    /\ WrittenThisRun =>
           \A i \in DOMAIN Selected(digest[1]) :
               ScoredBeforeEnrichment(Selected(digest[1])[i])

\* The digest holds an item whose summary was replaced and whose stored score
\* is no longer the score of the item as it now is.
C24_Witness ==
    /\ WrittenThisRun
    /\ \E i \in DOMAIN Selected(digest[1]) :
           LET it == Selected(digest[1])[i]
           IN  /\ it.quality_score # calculate_quality_score(it)
               /\ \E j \in DOMAIN new_content :
                      /\ Key(new_content[j]) = Key(it)
                      /\ new_content[j].summary # it.summary

(***************************************************************************)
(* Claims about the choice of the image                                    *)
(***************************************************************************)
HadNoImage(i) ==
    /\ Get(img_before[i], "image_url", "") = ""
    /\ Get(img_before[i], "owner_avatar", "") = ""

\* The host of a url as the image pass sees it.
Host(url) == get_domain(url)

PageImage(url) ==
    IF img_fetch_og THEN fetch_og_image(WebPage(url)) ELSE None

KnownLogos(domain) ==
    {k \in DOMAIN SITE_LOGOS : Contains(domain, SITE_LOGOS[k].domain)}

FirstLogo(domain) ==
    SITE_LOGOS[CHOOSE k \in KnownLogos(domain) :
                   \A j \in KnownLogos(domain) : k <= j].logo

Favicon(domain) ==
    "https://www.google.com/s2/favicons?domain=" \o domain \o "&sz=128"

ImageByPriority(url) ==
    IF PageImage(url) # None THEN PageImage(url)[1]
    ELSE IF KnownLogos(Host(url)) # {} THEN FirstLogo(Host(url))
    ELSE Favicon(Host(url))

C25_WitnessPageImage ==
    /\ img_pc = "images"
    /\ \E i \in DOMAIN img_before :
           /\ HadNoImage(i)
           /\ PageImage(img_before[i].url) # None
           /\ KnownLogos(Host(img_before[i].url)) # {}
           /\ img_items[i].image_url = PageImage(img_before[i].url)[1]

(***************************************************************************)
(* Claims about the docs pages across runs                                 *)
(***************************************************************************)
DocsChecked == adapter = "collect_anthropic_updates" /\ pc # "off"

\* The page was fetched in the last call and had content to hash.
PageFetched(k) ==
    /\ answers.pages[k].kind = "http"
    /\ answers.pages[k].status = 200
    /\ answers.pages[k].hits.main # None

PageHash(k) == <<"md5", answers.pages[k].hits.main[1]>>

\* The cache entry of the page: None when there is none.
CacheEntry(file, k) ==
    IF file # None /\ docs_pages[k].url \in DOMAIN file[1]
    THEN Some(file[1][docs_pages[k].url])
    ELSE None

UpdateEmitted(k) ==
    \E i \in DOMAIN returned.items :
        /\ Get(returned.items[i], "source", "") = "Anthropic Docs"
        /\ returned.items[i].url = docs_pages[k].url

C26_WitnessFirstFetch ==
    /\ DocsChecked
    /\ \E k \in DOMAIN docs_pages :
           /\ PageFetched(k)
           /\ CacheEntry(answers.cache_file, k) = None
           /\ CacheEntry(docs_cache, k) # None
           /\ ~UpdateEmitted(k)

DocsUpdateOf(list, k) ==
    \E i \in DOMAIN list :
        /\ Get(list[i], "source", "") = "Anthropic Docs"
        /\ list[i].url = docs_pages[k].url

\* The ledger holds the entry an earlier run recorded for a change of the
\* page.
EarlierChangeRecorded(k) ==
    \E i \in DOMAIN db :
        /\ db[i].url = docs_pages[k].url
        /\ db[i].category = "official_updates"
        /\ db[i].timestamp # isoformat(now)

\* C28: a docs-change item has a (url, title) pair that is fixed per
\* monitored page, so when a page changes a second time while the ledger
\* still holds the entry recorded for its first change, the second update
\* item is dropped by the dedup pass and never reaches scoring or the digest.
C28_SecondDocsChangeDropped ==
    \A k \in DOMAIN docs_pages :
        ( /\ pc \in {"deduped", "ranked", "images", "summaries", "written"}
          /\ DocsUpdateOf(all_content, k)
          /\ EarlierChangeRecorded(k) )
        => /\ ~DocsUpdateOf(new_content, k)
           /\ ~DocsUpdateOf(quality_content, k)
           /\ WrittenThisRun => ~DocsUpdateOf(Selected(digest[1]), k)

\* A page whose first change an earlier run recorded has changed again, and
\* the digest of this run was written without the second update.
C28_Witness ==
    /\ pc = "written"
    /\ \E k \in DOMAIN docs_pages :
           /\ DocsUpdateOf(all_content, k)
           /\ EarlierChangeRecorded(k)
           /\ ~DocsUpdateOf(new_content, k)

\* The update reporting the first change of a page is in the digest.
C28_WitnessFirstChange ==
    /\ WrittenThisRun
    /\ \E k \in DOMAIN docs_pages :
           /\ DocsUpdateOf(Selected(digest[1]), k)
           /\ ~EarlierChangeRecorded(k)

(***************************************************************************)
(* Claims about a run that ends between the dedup pass and the digest      *)
(***************************************************************************)
RecordedAt(it, t) ==
    \E i \in DOMAIN db :
        /\ db[i].url = it.url
        /\ db[i].title = it.title
        /\ db[i].timestamp = isoformat(t)

\* The entries an earlier run recorded.
EarlierEntries == {i \in DOMAIN db : db[i].timestamp # isoformat(now)}

HasKeyOf(list, entry) ==
    \E i \in DOMAIN list :
        list[i].url = entry.url /\ list[i].title = entry.title

\* C29: new items are recorded in the ledger before the digest that contains
\* them is written, and the two steps are not atomic: when a run ends after
\* the dedup pass and before the digest file is written, the items recorded
\* in that run stay in the ledger and the previous digest file is left in
\* place, and every later run skips those items as duplicates while their
\* entries are in the ledger.
C29_RecordedBeforeWritten ==
    /\ pc \in {"deduped", "ranked", "images", "summaries"} =>
           /\ \A i \in DOMAIN new_content : RecordedAt(new_content[i], now)
           /\ ~WrittenThisRun
    /\ fault = "digest" =>
           /\ \A i \in DOMAIN new_content : RecordedAt(new_content[i], now)
           /\ ~WrittenThisRun
    /\ pc \in {"deduped", "ranked", "images", "summaries", "written"} =>
           \A i \in EarlierEntries :
               /\ ~HasKeyOf(new_content, db[i])
               /\ ~HasKeyOf(quality_content, db[i])
               /\ WrittenThisRun => ~HasKeyOf(Selected(digest[1]), db[i])

\* A run recorded several items and ended without a digest; the next run
\* collected one of them again, dropped it and wrote its digest without it.
C29_Witness ==
    /\ run = 2
    /\ pc = "written"
    /\ WrittenThisRun
    /\ Cardinality(EarlierEntries) > 1
    /\ \E i \in EarlierEntries : HasKeyOf(all_content, db[i])
    /\ \A i \in EarlierEntries : ~HasKeyOf(Selected(digest[1]), db[i])

\* A run ended at the digest write with the digest of an earlier run in
\* place and its own items in the ledger.
C29_WitnessAbort ==
    /\ fault = "digest"
    /\ pc = "exited"
    /\ new_content # <<>>
    /\ digest # None
    /\ ~WrittenThisRun

(***************************************************************************)
(* Claims about the tasks of the enrichment passes                         *)
(***************************************************************************)
InImagePass == img_pc \in {"image_tasks", "images"}

InSummaryPass == img_pc \in {"summary_tasks", "end"}

\* What the task of the i-th item makes of the item the pass was given.
TaskResult(i) ==
    IF InImagePass
    THEN get_image_for_item(img_before[i], TRUE,
                            WebPage(Get(img_before[i], "url", "")))
    ELSE enrich_item_with_summary(img_before[i],
                                  WebText(Get(img_before[i], "url", "")))

Returned_AllItems ==
    /\ Len(img_items) = Len(img_before)
    /\ \A i \in DOMAIN img_before : Key(img_items[i]) = Key(img_before[i])

FailureContained ==
    /\ (InImagePass \/ InSummaryPass) =>
           \A i \in DOMAIN tasks :
               tasks[i] = "raised" =>
                   \A j \in DOMAIN tasks \ {i} :
                       /\ j \in DOMAIN img_items
                       /\ tasks[j] = "finished" => img_items[j] = TaskResult(j)
                       /\ tasks[j] = "pending" => img_items[j] = img_before[j]
    /\ img_pc \in {"images", "end"} => Returned_AllItems

\* C21: in each enrichment pass a failure while processing one item leaves
\* every other item's fields as they would be had the failure not occurred,
\* the pass still returns all input items, and both passes terminate once
\* every submitted per-item task has finished.
C21_FailureContainedAndTerminates ==
    /\ []FailureContained
    /\ (img_pc = "image_tasks" /\ AllDelivered) ~> (img_pc = "images")
    /\ (img_pc = "summary_tasks" /\ AllDelivered) ~> (img_pc = "end")

\* The summary pass has returned all items although the task of one item
\* raised, and the task of another item has replaced its summary.
C21_Witness ==
    /\ img_pc = "end"
    /\ \E i, j \in DOMAIN tasks :
           /\ tasks[i] = "raised"
           /\ tasks[j] = "finished"
           /\ img_items[j].summary # img_before[j].summary

\* What becomes of an item depends on the item and on how its own task ended.
TaskOutcome(i) ==
    IF tasks[i] = "finished" THEN TaskResult(i) ELSE img_before[i]

NoneRaised == \A i \in DOMAIN tasks : tasks[i] # "raised"

\* C22: the result of each enrichment pass is independent of the order in
\* which the tasks complete: in every interleaving the list has the same
\* length and the same item at every index as the input list, and each
\* item's enriched fields depend only on that item; a pass without failure
\* returns what the pass over the items one after the other returns.
C22_OrderIndependent ==
    (InImagePass \/ InSummaryPass) =>
        /\ DOMAIN tasks = DOMAIN img_before
        /\ Returned_AllItems
        /\ \A i \in DOMAIN tasks : img_items[i] = TaskOutcome(i)
        /\ (img_pc = "images" /\ NoneRaised) =>
               img_items = enrich_items_with_images(img_before, TRUE)
        /\ (img_pc = "end" /\ NoneRaised) =>
               img_items = enrich_items_with_summaries(img_before)

\* The task of the last item has finished and replaced the summary while the
\* task of the first item is still running.
C22_Witness ==
    /\ img_pc = "summary_tasks"
    /\ Len(img_items) = MaxTaskLen
    /\ tasks[1] = "pending"
    /\ tasks[MaxTaskLen] = "finished"
    /\ img_items[MaxTaskLen].summary # img_before[MaxTaskLen].summary

====
